---- MODULE Spec2Model ----
(***************************************************************************)
(* Model of the benchmark analysis scripts of AI-LLM-Reviewer:             *)
(*   scripts/simple-analyzer.py   (SimpleBenchmarkAnalyzer, weighted)      *)
(*   scripts/analyze-benchmark.py (BenchmarkAnalyzer, presence-based)      *)
(* Comment bodies are real strings; str.lower() and the `in` substring     *)
(* test are computed character by character.  Percentages are Python       *)
(* floats in the code; here they are exact rationals [num, den], compared  *)
(* by cross-multiplication.                                                *)
(***************************************************************************)
EXTENDS Integers, Sequences, FiniteSets, TLC

\* ------------------------------------------------------------------------
\* Bounds of the model
\* ------------------------------------------------------------------------
MaxComments == 6
MaxItems == 2
MaxModels == 3
MaxReviews == 3
MaxCalls == 3
MaxPrs == 2
MaxRuns == 2

\* ------------------------------------------------------------------------
\* Strings: str.lower() and `keyword in body`
\* ------------------------------------------------------------------------
UpperChars == "ABCDEFGHIJKLMNOPQRSTUVWXYZ"
LowerChars == "abcdefghijklmnopqrstuvwxyz"

CharAt(s, i) == SubSeq(s, i, i)

LowerChar(c) ==
    IF \E i \in 1..Len(UpperChars) : CharAt(UpperChars, i) = c
    THEN CharAt(LowerChars, CHOOSE i \in 1..Len(UpperChars) : CharAt(UpperChars, i) = c)
    ELSE c

RECURSIVE StrLower(_)
StrLower(s) ==
    IF Len(s) = 0 THEN s
    ELSE LowerChar(CharAt(s, 1)) \o StrLower(SubSeq(s, 2, Len(s)))

\* Python `kw in body` for str operands: substring search.
StrContains(kw, body) ==
    \E i \in 1..(Len(body) - Len(kw) + 1) : SubSeq(body, i, i + Len(kw) - 1) = kw

\* ------------------------------------------------------------------------
\* Issue catalog (_load_known_issues): the line numbers of the known issues
\* ------------------------------------------------------------------------
known_issues ==
    [security    |-> <<8, 15, 19, 30, 33, 65, 75, 85, 95, 105, 115, 125, 135, 145, 155>>,
     performance |-> <<38, 45, 55, 165, 175>>,
     quality     |-> <<12, 22, 68, 78, 88, 98, 108>>]

Categories == {"security", "performance", "quality"}

total_issues == Len(known_issues.security) + Len(known_issues.performance)
                    + Len(known_issues.quality)

\* ------------------------------------------------------------------------
\* Keyword dictionaries
\* ------------------------------------------------------------------------
\* simple-analyzer.py (weighted scorer)
SimpleKeywords ==
    [security    |-> <<"sql injection", "xss", "hardcoded", "secret", "api key", "password",
                       "command injection", "crypto", "authentication", "vulnerability",
                       "security", "injection", "cross-site scripting", "credential">>,
     performance |-> <<"race condition", "memory leak", "performance", "inefficient",
                       "blocking", "async", "synchronous", "resource", "optimization",
                       "complexity", "algorithm", "bottleneck">>,
     quality     |-> <<"type", "error handling", "validation", "null check", "exception",
                       "input validation", "type safety", "annotation", "casting">>]

\* analyze-benchmark.py (presence-based scorer)
BenchmarkKeywords ==
    [security    |-> <<"sql injection", "xss", "hardcoded", "secret", "api key",
                       "command injection", "crypto", "authentication", "vulnerability">>,
     performance |-> <<"race condition", "memory leak", "performance",
                       "inefficient", "blocking", "async">>,
     quality     |-> <<"type", "error handling", "validation", "null check">>]

\* Per-comment caps of the weighted scorer: min(matches, cap)
SecurityCap == 3
PerformanceCap == 2
QualityCap == 2

\* ------------------------------------------------------------------------
\* Comment bodies used as inputs
\* ------------------------------------------------------------------------
BodySql  == "Possible SQL Injection from a hardcoded query"
BodyRace == "Race condition in balance update"
BodyBoth == "Race condition breaks type safety"
BodyNone == "Looks good to me"
BodyAll  == "XSS, secret password, crypto: inefficient async blocking call, no null check or validation of type"

Bodies == {BodySql, BodyRace, BodyBoth, BodyNone, BodyAll}

\* every body a fetched comment can carry in the model
AllBodies == Bodies \cup {""}

\* review['body'].lower(), tabulated over the bodies of the model
LowerOf == [b \in AllBodies |-> StrLower(b)]

BotUser == "github-actions[bot]"

\* A fetched comment record as the scorers read it
Review(user, body, type) == [type |-> type, body |-> body, user |-> user]

\* ------------------------------------------------------------------------
\* Percentages (Python floats) as exact rationals
\* ------------------------------------------------------------------------
Rat(n, d) == [num |-> n, den |-> d]

\* (raw / size) * 100
Percent(raw, size) == Rat(raw * 100, size)

RatLess(a, b) == a.num * b.den < b.num * a.den
RatLeq(a, b) == a.num * b.den <= b.num * a.den
RatEq(a, b) == a.num * b.den = b.num * a.den

Hundred == Rat(100, 1)
Zero == Rat(0, 1)

\* Python min(x, 100): the first argument unless the second is smaller
NoCap(x) == x
MinHundred(x) == IF RatLess(Hundred, x) THEN Hundred ELSE x

\* Python min(matches, cap) on ints
MaxInt(a, b) == IF b > a THEN b ELSE a
MinInt(a, b) == IF b < a THEN b ELSE a

\* sum(1 for keyword in keywords if keyword in body)
KeywordMatches(keywords, body) ==
    Cardinality({i \in 1..Len(keywords) : StrContains(keywords[i], body)})

\* any(keyword in body for keyword in keywords)
AnyKeyword(keywords, body) ==
    \E i \in 1..Len(keywords) : StrContains(keywords[i], body)

\* the match counts of the weighted scorer and the any() tests of the
\* presence-based scorer, tabulated over the bodies of the model
SimpleMatchesOf ==
    [b \in AllBodies |->
        [c \in Categories |-> KeywordMatches(SimpleKeywords[c], LowerOf[b])]]

BenchmarkAnyOf ==
    [b \in AllBodies |->
        [c \in Categories |-> AnyKeyword(BenchmarkKeywords[c], LowerOf[b])]]

NoDetections == [security |-> 0, performance |-> 0, quality |-> 0]

\* ------------------------------------------------------------------------
\* SimpleBenchmarkAnalyzer._analyze_single_model (weighted scorer)
\* ------------------------------------------------------------------------
\* the three *_matches counts of one review
SimpleMatches(review) == SimpleMatchesOf[review.body]

\* one iteration of `for review in reviews`
SimpleLoopBodyElif(detected, review) ==
    LET m == SimpleMatches(review)
    IN  IF m.security > 0
        THEN [detected EXCEPT !.security = @ + MinInt(m.security, SecurityCap)]
        ELSE IF m.performance > 0
        THEN [detected EXCEPT !.performance = @ + MinInt(m.performance, PerformanceCap)]
        ELSE IF m.quality > 0
        THEN [detected EXCEPT !.quality = @ + MinInt(m.quality, QualityCap)]
        ELSE detected

\* the loop body without min(matches, cap)
SimpleLoopBodyUncapped(detected, review) ==
    LET m == SimpleMatches(review)
    IN  [c \in Categories |-> detected[c] + m[c]]

\* a loop body whose effect depends on what was counted before
SimpleLoopBodySecurityFirst(detected, review) ==
    LET m == SimpleMatches(review)
    IN  [security    |-> detected.security + MinInt(m.security, SecurityCap),
         performance |-> detected.performance
                            + (IF detected.security = 0
                               THEN MinInt(m.performance, PerformanceCap) ELSE 0),
         quality     |-> detected.quality + MinInt(m.quality, QualityCap)]

SimpleLoopBody(detected, review) ==
    LET m == SimpleMatches(review)
    IN  [security    |-> detected.security
                            + (IF m.security > 0 THEN MinInt(m.security, SecurityCap) ELSE 0),
         performance |-> detected.performance
                            + (IF m.performance > 0
                               THEN MinInt(m.performance, PerformanceCap) ELSE 0),
         quality     |-> detected.quality
                            + (IF m.quality > 0 THEN MinInt(m.quality, QualityCap) ELSE 0)]

RECURSIVE SimpleLoop(_, _)
SimpleLoop(detected, reviews) ==
    IF reviews = <<>> THEN detected
    ELSE SimpleLoop(SimpleLoopBody(detected, Head(reviews)), Tail(reviews))

\* "Calculate metrics" and the returned dict
SimpleMetricsUncapped(reviews, detected) ==
    LET total_detected == detected.security + detected.performance + detected.quality
    IN  [total_comments    |-> Len(reviews),
         detected_issues   |-> detected,
         total_detected    |-> total_detected,
         detection_rate    |-> IF total_issues > 0
                               THEN NoCap(Percent(total_detected, total_issues))
                               ELSE Zero,
         security_score    |-> NoCap(Percent(detected.security, Len(known_issues.security))),
         performance_score |-> NoCap(Percent(detected.performance,
                                             Len(known_issues.performance))),
         quality_score     |-> NoCap(Percent(detected.quality, Len(known_issues.quality)))]

\* metrics averaged per comment: divides by len(reviews)
SimpleMetricsPerComment(reviews, detected) ==
    IF Len(reviews) = 0
    THEN [error |-> "ZeroDivisionError"]
    ELSE SimpleMetricsUncapped(reviews, detected)

SimpleMetrics(reviews, detected) ==
    LET total_detected == detected.security + detected.performance + detected.quality
    IN  [total_comments    |-> Len(reviews),
         detected_issues   |-> detected,
         total_detected    |-> total_detected,
         detection_rate    |-> IF total_issues > 0
                               THEN MinHundred(Percent(total_detected, total_issues))
                               ELSE Zero,
         security_score    |-> MinHundred(Percent(detected.security,
                                                  Len(known_issues.security))),
         performance_score |-> MinHundred(Percent(detected.performance,
                                                  Len(known_issues.performance))),
         quality_score     |-> MinHundred(Percent(detected.quality,
                                                  Len(known_issues.quality)))]

Simple_analyze_single_model(reviews) ==
    SimpleMetrics(reviews, SimpleLoop(NoDetections, reviews))

\* ------------------------------------------------------------------------
\* BenchmarkAnalyzer._analyze_single_model (presence-based scorer)
\* ------------------------------------------------------------------------
BenchmarkLoopBodyElif(detected, review) ==
    LET any == BenchmarkAnyOf[review.body]
    IN  IF any.security
        THEN [detected EXCEPT !.security = @ + 1]
        ELSE IF any.performance
        THEN [detected EXCEPT !.performance = @ + 1]
        ELSE IF any.quality
        THEN [detected EXCEPT !.quality = @ + 1]
        ELSE detected

BenchmarkLoopBody(detected, review) ==
    LET any == BenchmarkAnyOf[review.body]
    IN  [security    |-> detected.security + (IF any.security THEN 1 ELSE 0),
         performance |-> detected.performance + (IF any.performance THEN 1 ELSE 0),
         quality     |-> detected.quality + (IF any.quality THEN 1 ELSE 0)]

RECURSIVE BenchmarkLoop(_, _)
BenchmarkLoop(detected, reviews) ==
    IF reviews = <<>> THEN detected
    ELSE BenchmarkLoop(BenchmarkLoopBody(detected, Head(reviews)), Tail(reviews))

BenchmarkMetrics(reviews, detected) ==
    LET total_detected == detected.security + detected.performance + detected.quality
    IN  [total_comments    |-> Len(reviews),
         detected_issues   |-> detected,
         total_detected    |-> total_detected,
         detection_rate    |-> IF total_issues > 0
                               THEN Percent(total_detected, total_issues)
                               ELSE Zero,
         security_score    |-> Percent(detected.security, Len(known_issues.security)),
         performance_score |-> Percent(detected.performance, Len(known_issues.performance)),
         quality_score     |-> Percent(detected.quality, Len(known_issues.quality))]

Benchmark_analyze_single_model(reviews) ==
    BenchmarkMetrics(reviews, BenchmarkLoop(NoDetections, reviews))

\* ------------------------------------------------------------------------
\* State
\* ------------------------------------------------------------------------
VARIABLES
    scorer,            \* which _analyze_single_model runs: "simple" | "benchmark"
    reviews,           \* the reviews the loop has iterated over so far
    detected_issues,   \* the detected_issues dict of the running call
    score_pc,          \* "idle" | "loop" | "returned"
    result             \* the dict returned by _analyze_single_model

scoreVars == <<scorer, reviews, detected_issues, score_pc, result>>

VARIABLES
    script,            \* the program that runs: "simple" | "benchmark" | "none"
    pc,                \* position of the run in analyze_pr / generate_comparison_report
    github_token,      \* whether self.github_token is set
    comments_resp,     \* the API's answer to the line-comments request
    reviews_resp,      \* the API's answer to the general-reviews request
    requested,         \* the endpoints requested so far, in order
    all_reviews,       \* the list fetch_pr_reviews builds and returns
    fetch_status,      \* "not_called" | "running" | "returned" | "raised"
    results,           \* analyze_model_performance's dict, in insertion order
    text_report,       \* the text report generated by generate_text_report
    summary,           \* the best-performer selection of the report
    console,           \* the messages printed so far
    dir_created,       \* whether the run has created the output directory
    files,             \* state of each report file: "absent" | "partial" | "full"
    exit_code          \* exit status of the process once pc = "exited"

pipeVars == <<script, pc, github_token, comments_resp, reviews_resp, requested,
              all_reviews, fetch_status, results, text_report, summary, console,
              dir_created, files, exit_code>>

VARIABLES
    second_results,    \* what a second analyze_model_performance call returned
    cli_arg,           \* the PR identifier given to main (argv[1] or the typed line)
    academic_pc,       \* position of AIModelAnalyzer.run_analysis
    self_results,      \* AIModelAnalyzer.results
    pr_numbers,        \* the pr_numbers argument of run_analysis
    pr_pos,            \* index of the PR the loop of run_analysis is at
    api_seen,          \* what the API answered for each PR requested so far
    runs,              \* number of run_analysis calls that have returned
    first_run_results, \* self.results as the first run_analysis call left it
    csv_rows,          \* the rows of the data frame last saved by the graphs step
    workflow,          \* the lines of the workflow file ai-pr-review.yml
    calls,             \* the model keys passed to update_workflow_file, in order
    \* the git tools: switch-ai-model main, multi-model-tester, collect-results
    tool_pc,           \* where the running tool is
    git_log,           \* the commands and file operations executed, in order
    current_branch,    \* the branch the working tree is on
    original_branch,   \* run_multi_model_benchmark's original_branch
    models_to_test,    \* run_multi_model_benchmark's models_to_test
    model_pos,         \* index of the loop of the running tool
    tester_results,    \* run_multi_model_benchmark's results list
    analysis,          \* what analyze_model_results returned
    remote_branches,   \* the lines `git branch -r` prints
    collected          \* collect_all_results' results dict

gitVars == <<tool_pc, git_log, current_branch, original_branch, models_to_test,
             model_pos, tester_results, analysis, remote_branches, collected>>

toolVars == <<second_results, cli_arg, academic_pc, self_results, pr_numbers, pr_pos,
              api_seen, runs, first_run_results, csv_rows, workflow, calls, gitVars>>

vars == <<scoreVars, pipeVars, toolVars>>

None == [none |-> TRUE]

\* the git tools are not running
GitIdle ==
    /\ tool_pc = "idle"
    /\ git_log = <<>>
    /\ current_branch = "main"
    /\ original_branch = None
    /\ models_to_test = <<>>
    /\ model_pos = 0
    /\ tester_results = <<>>
    /\ analysis = None
    /\ remote_branches = <<>>
    /\ collected = None

\* the other tools are not running
ToolIdle ==
    /\ second_results = None
    /\ cli_arg = None
    /\ academic_pc = "idle"
    /\ self_results = <<>>
    /\ pr_numbers = <<>>
    /\ pr_pos = 0
    /\ api_seen = <<>>
    /\ runs = 0
    /\ first_run_results = None
    /\ csv_rows = None
    /\ GitIdle
    /\ workflow = <<>>
    /\ calls = <<>>

Scorers == {"simple", "benchmark"}

\* ------------------------------------------------------------------------
\* _analyze_single_model as a state machine: one action per loop iteration,
\* the next review of the input being any comment, then the metrics.
\* ------------------------------------------------------------------------
ReportFiles ==
    [simple    |-> <<"benchmark_report.txt", "benchmark_report.html", "results.json">>,
     benchmark |-> <<"benchmark_report.html", "comparison_graphs.png",
                     "detailed_results.json">>]

AllFiles == {"benchmark_report.txt", "benchmark_report.html", "results.json",
             "comparison_graphs.png", "detailed_results.json"}

\* no pipeline run: only _analyze_single_model is exercised
PipelineIdle ==
    /\ script = "none"
    /\ pc = "idle"
    /\ github_token = FALSE
    /\ comments_resp = None
    /\ reviews_resp = None
    /\ requested = <<>>
    /\ all_reviews = <<>>
    /\ fetch_status = "not_called"
    /\ results = <<>>
    /\ text_report = None
    /\ summary = None
    /\ console = <<>>
    /\ dir_created = FALSE
    /\ files = [f \in AllFiles |-> "absent"]
    /\ exit_code = -1

\* no stand-alone scorer call
ScoreIdle ==
    /\ scorer = "none"
    /\ reviews = <<>>
    /\ detected_issues = NoDetections
    /\ score_pc = "idle"
    /\ result = None

ScoreInit ==
    /\ PipelineIdle
    /\ ToolIdle
    /\ scorer \in Scorers
    /\ reviews = <<>>
    /\ detected_issues = NoDetections
    /\ score_pc = "loop"
    /\ result = None

SimpleIteration ==
    /\ scorer = "simple"
    /\ score_pc = "loop"
    /\ Len(reviews) < MaxComments
    /\ \E b \in Bodies :
          LET review == Review(BotUser, b, "line_comment")
          IN  /\ reviews' = Append(reviews, review)
              /\ detected_issues' = SimpleLoopBody(detected_issues, review)
    /\ UNCHANGED <<scorer, score_pc, result, pipeVars, toolVars>>

SimpleReturn ==
    /\ scorer = "simple"
    /\ score_pc = "loop"
    /\ result' = SimpleMetrics(reviews, detected_issues)
    /\ score_pc' = "returned"
    /\ UNCHANGED <<scorer, reviews, detected_issues, pipeVars, toolVars>>

BenchmarkIteration ==
    /\ scorer = "benchmark"
    /\ score_pc = "loop"
    /\ Len(reviews) < MaxComments
    /\ \E b \in Bodies :
          LET review == Review(BotUser, b, "line_comment")
          IN  /\ reviews' = Append(reviews, review)
              /\ detected_issues' = BenchmarkLoopBody(detected_issues, review)
    /\ UNCHANGED <<scorer, score_pc, result, pipeVars, toolVars>>

BenchmarkReturn ==
    /\ scorer = "benchmark"
    /\ score_pc = "loop"
    /\ result' = BenchmarkMetrics(reviews, detected_issues)
    /\ score_pc' = "returned"
    /\ UNCHANGED <<scorer, reviews, detected_issues, pipeVars, toolVars>>

ScoreNext ==
    \/ SimpleIteration
    \/ SimpleReturn
    \/ BenchmarkIteration
    \/ BenchmarkReturn

SpecScore == ScoreInit /\ [][ScoreNext]_vars

\* ------------------------------------------------------------------------
\* Claims about the scorers (checked under SpecScore)
\* ------------------------------------------------------------------------
InPercentRange(x) == RatLeq(Zero, x) /\ RatLeq(x, Hundred)

ScoresInRange(r) ==
    /\ InPercentRange(r.security_score)
    /\ InPercentRange(r.performance_score)
    /\ InPercentRange(r.quality_score)
    /\ InPercentRange(r.detection_rate)

Returned(s) == scorer = s /\ score_pc = "returned"

\* C1: the weighted scorer returns security_score, performance_score,
\* quality_score and detection_rate between 0 and 100 inclusive for every
\* comment list, also when the raw counts exceed the catalog sizes.
C1_WeightedScoresInRange ==
    Returned("simple") => ScoresInRange(result)

\* the weighted scorer has returned for a list whose raw counts exceed the
\* security catalog and the whole catalog
C1_Witness ==
    /\ Returned("simple")
    /\ result.detected_issues.security > Len(known_issues.security)
    /\ result.total_detected > total_issues
    /\ RatEq(result.security_score, Hundred)

\* C2: the presence-based scorer returns security_score, performance_score,
\* quality_score and detection_rate between 0 and 100 inclusive for every
\* comment list.
C2_PresenceScoresInRange ==
    Returned("benchmark") => ScoresInRange(result)

BodyCount(b) == Cardinality({i \in 1..Len(reviews) : reviews[i].body = b})

\* the four comments of the end-to-end scenario, in any order
ScenarioComments ==
    /\ Len(reviews) = 4
    /\ BodyCount(BodySql) = 1
    /\ BodyCount(BodyRace) = 1
    /\ BodyCount(BodyNone) = 2

\* C3 as stated: on the scenario's four comments the weighted scorer yields
\* security raw 2 (40%), performance raw 1 (50%), quality raw 0 (0%),
\* detection rate 30% and total_comments 4.
C3_ScenarioAsStated ==
    (Returned("simple") /\ ScenarioComments) =>
        /\ result.detected_issues = [security |-> 2, performance |-> 1, quality |-> 0]
        /\ RatEq(result.security_score, Rat(40, 1))
        /\ RatEq(result.performance_score, Rat(50, 1))
        /\ RatEq(result.quality_score, Zero)
        /\ RatEq(result.detection_rate, Rat(30, 1))
        /\ result.total_comments = 4

\* C3 amended: with the catalog of the code (15 security, 5 performance, 7
\* quality issues) and its keyword list, in which "sql injection" also
\* matches "injection", the scenario's four comments yield security raw 3
\* (20%), performance raw 1 (20%), quality raw 0 (0%), detection rate
\* 4/27 * 100 and total_comments 4.
C3_ScenarioOnCode ==
    (Returned("simple") /\ ScenarioComments) =>
        /\ result.detected_issues = [security |-> 3, performance |-> 1, quality |-> 0]
        /\ RatEq(result.security_score, Rat(20, 1))
        /\ RatEq(result.performance_score, Rat(20, 1))
        /\ RatEq(result.quality_score, Zero)
        /\ RatEq(result.detection_rate, Rat(400, 27))
        /\ result.total_comments = 4

C3_Witness ==
    /\ Returned("simple")
    /\ ScenarioComments
    /\ reviews[1].body = BodySql
    /\ result.total_detected = 4

ZeroResultFields(r) ==
    /\ r.total_comments = 0
    /\ r.detected_issues = NoDetections
    /\ r.total_detected = 0
    /\ RatEq(r.detection_rate, Zero)
    /\ RatEq(r.security_score, Zero)
    /\ RatEq(r.performance_score, Zero)
    /\ RatEq(r.quality_score, Zero)

\* C9: applied to an empty comment list, _analyze_single_model of either
\* scorer returns a result (not an error) with total_comments 0, every
\* detected count 0, every category score 0 and detection_rate 0.
C9_EmptyListAllZero ==
    (score_pc = "returned" /\ reviews = <<>>) =>
        /\ DOMAIN result = DOMAIN BenchmarkMetrics(<<>>, NoDetections)
        /\ ZeroResultFields(result)

C9_Witness ==
    /\ Returned("benchmark")
    /\ reviews = <<>>
    /\ result.total_comments = 0

KeywordsOf(s) == IF s = "simple" THEN SimpleKeywords ELSE BenchmarkKeywords

\* whether the lowercased body contains a keyword of category c of scorer s
ContainsKeywordOf ==
    [s \in Scorers |-> [b \in AllBodies |-> [c \in Categories |->
        \E i \in 1..Len(KeywordsOf(s)[c]) : StrContains(KeywordsOf(s)[c][i], LowerOf[b])]]]

\* C10: a loop iteration increments the detected count of every category of
\* which the comment body contains a keyword, in both scorers: a match in
\* one category never prevents the increment of another.
C10_NoMutualExclusivity ==
    [][(Len(reviews') = Len(reviews) + 1) =>
          \A c \in Categories :
              ContainsKeywordOf[scorer][reviews'[Len(reviews')].body][c]
                  => detected_issues'[c] >= detected_issues[c] + 1]_vars

\* a single comment containing "race condition" and "type safety" has
\* incremented performance and quality
C10_Witness ==
    /\ Len(reviews) = 1
    /\ reviews[1].body = BodyBoth
    /\ StrContains("race condition", LowerOf[reviews[1].body])
    /\ StrContains("type safety", LowerOf[reviews[1].body])
    /\ detected_issues.performance >= 1
    /\ detected_issues.quality >= 1

\* ------------------------------------------------------------------------
\* The hosting API as the fetcher sees it
\* ------------------------------------------------------------------------
HumanUser == "alice"
Users == {BotUser, HumanUser}

\* an item of a response; `missing` names a key the item lacks ("none": well-formed)
Item(user, body, missing) == [user |-> user, body |-> body, missing |-> missing]

CommentItems ==
    {Item(u, BodyBoth, "none") : u \in Users} \cup {Item(BotUser, BodyBoth, "path")}

ReviewItems ==
    {Item(u, b, "none") : u \in Users, b \in {"", BodySql}}
        \cup {Item(BotUser, "", "body"), Item(BotUser, BodySql, "submitted_at")}

SeqsUpTo(S, n) == UNION {[1..k -> S] : k \in 0..n}

\* what a request can come back with: a success response carrying items, a
\* non-success HTTP status, or no response at all
Responses(items) ==
    {[status |-> "ok", items |-> is] : is \in SeqsUpTo(items, MaxItems)}
        \cup {[status |-> "http_error", items |-> <<>>],
              [status |-> "network_error", items |-> <<>>]}

\* ------------------------------------------------------------------------
\* fetch_pr_reviews
\* ------------------------------------------------------------------------
\* `if not self.github_token`
TokenCheckSkipped(token) == FALSE
TokenMissing(token) == ~token

\* `except Exception as e`: the clause catches every exception kind raised in the try
CatchesRequestErrorsOnly(kind) == kind \in {"HTTPError", "ConnectionError"}
\* the exceptions the try block can raise, all subclasses of Exception
ExceptionKinds == {"HTTPError", "ConnectionError", "KeyError"}
Catches(kind) == kind \in ExceptionKinds

\* the exception the request itself raises, "none" if it returns a response:
\* requests.get returns non-success responses, urllib.request.urlopen raises them
RequestRaises(s, status) ==
    IF status = "network_error" THEN "ConnectionError"
    ELSE IF status = "http_error" /\ s = "simple" THEN "HTTPError"
    ELSE "none"

\* the keys the normalisation of an item subscripts (item[key], not item.get(key))
RequiredKeys(s, type) ==
    IF type = "line_comment" THEN {"body", "path", "user", "created_at"}
    ELSE IF s = "simple" THEN {"body", "user", "state"}
    ELSE {"body", "user", "state", "submitted_at"}

\* the loop over the items of a success response: appends the normalised
\* records in order until an item raises KeyError; a general review with a
\* falsy body is skipped once its body was read
RECURSIVE ProcessItemsNewestFirst(_, _, _, _)
ProcessItemsNewestFirst(s, type, acc, items) ==
    IF items = <<>> THEN [list |-> acc, raised |-> "none"]
    ELSE LET it == Head(items)
         IN  IF it.missing = "body" THEN [list |-> acc, raised |-> "KeyError"]
             ELSE IF type = "general_review" /\ it.body = ""
             THEN ProcessItemsNewestFirst(s, type, acc, Tail(items))
             ELSE IF it.missing \in RequiredKeys(s, type)
             THEN [list |-> acc, raised |-> "KeyError"]
             ELSE ProcessItemsNewestFirst(s, type,
                                          <<Review(it.user, it.body, type)>> \o acc,
                                          Tail(items))

RECURSIVE ProcessItems(_, _, _, _)
ProcessItems(s, type, acc, items) ==
    IF items = <<>> THEN [list |-> acc, raised |-> "none"]
    ELSE LET it == Head(items)
         IN  IF it.missing = "body" THEN [list |-> acc, raised |-> "KeyError"]
             ELSE IF type = "general_review" /\ it.body = ""
             THEN ProcessItems(s, type, acc, Tail(items))
             ELSE IF it.missing \in RequiredKeys(s, type)
             THEN [list |-> acc, raised |-> "KeyError"]
             ELSE ProcessItems(s, type, Append(acc, Review(it.user, it.body, type)),
                               Tail(items))

\* one request and the processing of its response: the list so far, the
\* exception that ended the try block ("none" if none did)
FetchStep(s, type, acc, resp) ==
    IF RequestRaises(s, resp.status) # "none"
    THEN [list |-> acc, raised |-> RequestRaises(s, resp.status)]
    ELSE IF resp.status = "ok"
    THEN ProcessItems(s, type, acc, resp.items)
    ELSE [list |-> acc, raised |-> "none"]

PrintMsg(msg) == console' = Append(console, msg)

\* main returns: the process ends with status 0
ExitOk ==
    /\ pc' = "exited"
    /\ exit_code' = 0

\* an exception nobody catches: traceback on the console, status 1
Abort(exc) ==
    /\ pc' = "exited"
    /\ exit_code' = 1
    /\ PrintMsg("Traceback: " \o exc)

\* leaving the try block of fetch_pr_reviews after a step
FetchContinueRetrying(step, nextpc) ==
    /\ all_reviews' = step.list
    /\ IF step.raised = "none"
       THEN /\ pc' = nextpc
            /\ fetch_status' = IF nextpc = "fetched" THEN "returned" ELSE "running"
            /\ UNCHANGED <<console, exit_code>>
       ELSE /\ PrintMsg("Error fetching reviews")
            /\ pc' = IF Len(requested) < 2 THEN "fetch" ELSE "fetched"
            /\ fetch_status' = IF Len(requested) < 2 THEN "running" ELSE "returned"
            /\ UNCHANGED exit_code

FetchContinue(step, nextpc) ==
    /\ all_reviews' = step.list
    /\ IF step.raised = "none"
       THEN /\ pc' = nextpc
            /\ fetch_status' = IF nextpc = "fetched" THEN "returned" ELSE "running"
            /\ UNCHANGED <<console, exit_code>>
       ELSE IF Catches(step.raised)
       THEN /\ PrintMsg("Error fetching reviews")
            /\ pc' = "fetched"
            /\ fetch_status' = "returned"
            /\ UNCHANGED exit_code
       ELSE /\ fetch_status' = "raised"
            /\ Abort(step.raised)

FetchNoToken ==
    /\ pc = "fetch"
    /\ TokenMissing(github_token)
    /\ PrintMsg("GitHub token not found")
    /\ all_reviews' = <<>>
    /\ fetch_status' = "returned"
    /\ pc' = "fetched"
    /\ UNCHANGED <<script, github_token, comments_resp, reviews_resp, requested, results,
                   text_report, summary, dir_created, files, exit_code, scoreVars, toolVars>>

FetchComments ==
    /\ pc = "fetch"
    /\ ~TokenMissing(github_token)
    /\ \E resp \in Responses(CommentItems) :
          /\ comments_resp' = resp
          /\ requested' = Append(requested, "comments")
          /\ FetchContinue(FetchStep(script, "line_comment", <<>>, resp), "fetch_reviews")
    /\ UNCHANGED <<script, github_token, reviews_resp, results, text_report, summary,
                   dir_created, files, scoreVars, toolVars>>

FetchReviews ==
    /\ pc = "fetch_reviews"
    /\ \E resp \in Responses(ReviewItems) :
          /\ reviews_resp' = resp
          /\ requested' = Append(requested, "reviews")
          /\ FetchContinue(FetchStep(script, "general_review", all_reviews, resp), "fetched")
    /\ UNCHANGED <<script, github_token, comments_resp, results, text_report, summary,
                   dir_created, files, scoreVars, toolVars>>

\* ------------------------------------------------------------------------
\* analyze_model_performance
\* ------------------------------------------------------------------------
\* "Group reviews by model (user)": the models dict in insertion order
RECURSIVE GroupByUser(_, _)
GroupByUser(models, revs) ==
    IF revs = <<>> THEN models
    ELSE LET r == Head(revs)
             at == {i \in 1..Len(models) : models[i].name = r.user}
         IN  IF at = {}
             THEN GroupByUser(Append(models, [name |-> r.user, reviews |-> <<r>>]),
                              Tail(revs))
             ELSE GroupByUser([models EXCEPT ![CHOOSE i \in at : TRUE].reviews =
                                                 Append(@, r)],
                              Tail(revs))

\* 'github-actions' in model_name.lower() or 'bot' in model_name.lower()
IsAIModelAnyone(name) == TRUE
IsAIModelCaseSensitive(name) ==
    \/ StrContains("github-actions", name)
    \/ StrContains("bot", name)
IsAIModel(name) ==
    \/ StrContains("github-actions", StrLower(name))
    \/ StrContains("bot", StrLower(name))

\* detected_issues kept on the analyzer from one call to the next
CarriedDetections ==
    IF results = <<>> THEN NoDetections
    ELSE results[Len(results)].data.detected_issues

AnalyzeSingleModelCarrying(s, revs) ==
    IF s = "simple" THEN SimpleMetrics(revs, SimpleLoop(CarriedDetections, revs))
    ELSE BenchmarkMetrics(revs, BenchmarkLoop(CarriedDetections, revs))

AnalyzeSingleModel(s, revs) ==
    IF s = "simple" THEN Simple_analyze_single_model(revs)
    ELSE Benchmark_analyze_single_model(revs)

\* the results dict, as the sequence of its items in insertion order
RECURSIVE ScoreModels(_, _)
ScoreModels(s, models) ==
    IF models = <<>> THEN <<>>
    ELSE LET m == Head(models)
         IN  IF IsAIModel(m.name)
             THEN <<[name |-> m.name, data |-> AnalyzeSingleModel(s, m.reviews)]>>
                      \o ScoreModels(s, Tail(models))
             ELSE ScoreModels(s, Tail(models))

analyze_model_performance(s, revs) == ScoreModels(s, GroupByUser(<<>>, revs))

\* ------------------------------------------------------------------------
\* Best performers: max(results.keys(), key=lambda k: results[k][field])
\* ------------------------------------------------------------------------
\* Python's max keeps the first maximal element: a later element replaces
\* the current best only if its key is strictly greater
RECURSIVE PyMaxIdxLast(_, _, _, _)
PyMaxIdxLast(res, field, best, i) ==
    IF i > Len(res) THEN best
    ELSE PyMaxIdxLast(res, field,
                      IF RatLeq(res[best].data[field], res[i].data[field]) THEN i ELSE best,
                      i + 1)

RECURSIVE PyMaxIdx(_, _, _, _)
PyMaxIdx(res, field, best, i) ==
    IF i > Len(res) THEN best
    ELSE PyMaxIdx(res, field,
                  IF RatLess(res[best].data[field], res[i].data[field]) THEN i ELSE best,
                  i + 1)

PyMaxLast(res, field) == res[PyMaxIdxLast(res, field, 1, 2)].name
PyMax(res, field) == res[PyMaxIdx(res, field, 1, 2)].name

BestPerformers(res) ==
    [best_overall     |-> PyMax(res, "detection_rate"),
     best_security    |-> PyMax(res, "security_score"),
     best_performance |-> PyMax(res, "performance_score"),
     best_quality     |-> PyMax(res, "quality_score")]

\* generate_text_report: the parts of the text the claims are about
generate_text_report(res) ==
    IF res = <<>>
    THEN [no_models |-> TRUE, top_performers |-> None]
    ELSE [no_models |-> FALSE, top_performers |-> BestPerformers(res)]

\* the "summary" entry of _generate_json_report
JsonSummary(res) ==
    IF res # <<>> THEN BestPerformers(res)
    ELSE [best_overall |-> None, best_security |-> None,
          best_performance |-> None, best_quality |-> None]

\* ------------------------------------------------------------------------
\* analyze_pr (simple-analyzer.py) and generate_comparison_report
\* (analyze-benchmark.py)
\* ------------------------------------------------------------------------
Scripts == {"simple", "benchmark"}

Init ==
    /\ ScoreIdle
    /\ ToolIdle
    /\ script \in Scripts
    /\ pc = IF script = "simple" THEN "makedirs" ELSE "fetch"
    /\ github_token \in BOOLEAN
    /\ comments_resp = None
    /\ reviews_resp = None
    /\ requested = <<>>
    /\ all_reviews = <<>>
    /\ fetch_status = "not_called"
    /\ results = <<>>
    /\ text_report = None
    /\ summary = None
    /\ console = <<>>
    /\ dir_created = FALSE
    /\ files = [f \in AllFiles |-> "absent"]
    /\ exit_code = -1

\* os.makedirs(output_dir, exist_ok=True), before anything is fetched
SimpleMakeDirs ==
    /\ pc = "makedirs"
    /\ script = "simple"
    /\ \E ok \in BOOLEAN :
          IF ok
          THEN /\ dir_created' = TRUE
               /\ pc' = "fetch"
               /\ UNCHANGED <<console, exit_code>>
          ELSE /\ Abort("OSError")
               /\ UNCHANGED dir_created
    /\ UNCHANGED <<script, github_token, comments_resp, reviews_resp, requested,
                   all_reviews, fetch_status, results, text_report, summary, files,
                   scoreVars, toolVars>>

\* analyze_pr from the return of fetch_pr_reviews to the first file write
SimpleAnalyze ==
    /\ pc = "fetched"
    /\ script = "simple"
    /\ IF all_reviews = <<>>
       THEN /\ PrintMsg("No reviews found")
            /\ pc' = "exited"
            /\ exit_code' = 0
            /\ UNCHANGED <<results, text_report, summary>>
       ELSE /\ results' = analyze_model_performance(script, all_reviews)
            /\ text_report' = generate_text_report(results')
            /\ summary' = text_report'.top_performers
            /\ pc' = "write1"
            /\ UNCHANGED <<console, exit_code>>
    /\ UNCHANGED <<script, github_token, comments_resp, reviews_resp, requested,
                   all_reviews, fetch_status, dir_created, files, scoreVars, toolVars>>

\* generate_comparison_report from the return of fetch_pr_reviews to mkdir
BenchmarkAnalyze ==
    /\ pc = "fetched"
    /\ script = "benchmark"
    /\ IF all_reviews = <<>>
       THEN /\ PrintMsg("No reviews found")
            /\ pc' = "exited"
            /\ exit_code' = 0
            /\ UNCHANGED results
       ELSE /\ results' = analyze_model_performance(script, all_reviews)
            /\ IF results' = <<>>
               THEN /\ PrintMsg("No AI model reviews detected")
                    /\ pc' = "exited"
                    /\ exit_code' = 0
               ELSE /\ pc' = "mkdir"
                    /\ UNCHANGED <<console, exit_code>>
    /\ UNCHANGED <<script, github_token, comments_resp, reviews_resp, requested,
                   all_reviews, fetch_status, text_report, summary, dir_created, files,
                   scoreVars, toolVars>>

\* Path(output_dir).mkdir(exist_ok=True)
BenchmarkMakeDir ==
    /\ pc = "mkdir"
    /\ script = "benchmark"
    /\ \E ok \in BOOLEAN :
          IF ok
          THEN /\ dir_created' = TRUE
               /\ pc' = "write1"
               /\ UNCHANGED <<console, exit_code>>
          ELSE /\ Abort("OSError")
               /\ UNCHANGED dir_created
    /\ UNCHANGED <<script, github_token, comments_resp, reviews_resp, requested,
                   all_reviews, fetch_status, results, text_report, summary, files,
                   scoreVars, toolVars>>

\* what a write of a report file can do: succeed, fail to open the file (the
\* file is not created), or fail while writing (the file is left incomplete)
WriteOutcomes == {"ok", "open_fails", "write_fails"}

FileAfter(outcome, before) ==
    IF outcome = "ok" THEN "full"
    ELSE IF outcome = "write_fails" THEN "partial"
    ELSE before

\* where the run goes after a write: an I/O error is not caught anywhere
AfterWriteIgnoringErrors(outcome, nextpc) == nextpc
AfterWrite(outcome, nextpc) == IF outcome = "ok" THEN nextpc ELSE "exited"

\* the k-th report file of the run is written
WriteFile(k, nextpc) ==
    /\ pc = "write" \o ToString(k)
    /\ \E outcome \in WriteOutcomes :
          /\ files' = [files EXCEPT ![ReportFiles[script][k]] = FileAfter(outcome, @)]
          /\ IF AfterWrite(outcome, nextpc) = "exited"
             THEN IF outcome = "ok"
                  THEN /\ pc' = "exited"
                       /\ exit_code' = 0
                       /\ console' =
                             console \o <<"Analysis complete">> \o
                             (IF script = "simple" /\ results = <<>>
                              THEN <<"No AI model reviews detected">> ELSE <<>>)
                  ELSE Abort("OSError")
             ELSE /\ pc' = AfterWrite(outcome, nextpc)
                  /\ UNCHANGED <<console, exit_code>>
    /\ summary' = IF script = "benchmark" /\ nextpc = "exited"
                  THEN JsonSummary(results) ELSE summary
    /\ UNCHANGED <<script, github_token, comments_resp, reviews_resp, requested,
                   all_reviews, fetch_status, results, text_report, dir_created,
                   scoreVars, toolVars>>

WriteFirst == WriteFile(1, "write2")
WriteSecond == WriteFile(2, "write3")
WriteThird == WriteFile(3, "exited")

Next ==
    \/ SimpleMakeDirs
    \/ FetchNoToken
    \/ FetchComments
    \/ FetchReviews
    \/ SimpleAnalyze
    \/ BenchmarkAnalyze
    \/ BenchmarkMakeDir
    \/ WriteFirst
    \/ WriteSecond
    \/ WriteThird

Spec == Init /\ [][Next]_vars

\* ------------------------------------------------------------------------
\* Claims about the pipeline (checked under Spec)
\* ------------------------------------------------------------------------
Printed(msg) == \E i \in 1..Len(console) : console[i] = msg

Exited == pc = "exited"

ScriptFiles == {ReportFiles[script][k] : k \in 1..Len(ReportFiles[script])}

NoReportFile == \A f \in AllFiles : files[f] = "absent"

\* C4 as stated: without a GitHub token fetch_pr_reviews returns an empty
\* list and the run still produces a report stating that no AI model
\* reviews were detected, ending with exit code 0.
C4_NoTokenReportAsStated ==
    (Exited /\ ~github_token /\ fetch_status # "not_called") =>
        /\ all_reviews = <<>>
        /\ exit_code = 0
        /\ \E f \in ScriptFiles : files[f] = "full"
        /\ Printed("No AI model reviews detected")
               \/ (text_report # None /\ text_report.no_models)

\* C4 amended: without a GitHub token fetch_pr_reviews issues no request
\* and returns an empty list; the run then prints "No reviews found",
\* generates and writes no report, and ends with exit code 0.
C4_NoTokenNoReport ==
    (Exited /\ ~github_token /\ fetch_status # "not_called") =>
        /\ fetch_status = "returned"
        /\ all_reviews = <<>>
        /\ requested = <<>>
        /\ Printed("No reviews found")
        /\ ~Printed("No AI model reviews detected")
        /\ text_report = None
        /\ NoReportFile
        /\ exit_code = 0

C4_Witness ==
    /\ Exited
    /\ ~github_token
    /\ fetch_status = "returned"
    /\ Printed("GitHub token not found")
    /\ exit_code = 0

\* the run was ended by a failure to create the output directory or to
\* write a report file
OutputFailed == Exited /\ Printed("Traceback: OSError")

WrittenPrefix ==
    \E k \in 1..Len(ReportFiles[script]) :
        /\ \A j \in 1..(k - 1) : files[ReportFiles[script][j]] = "full"
        /\ files[ReportFiles[script][k]] \in {"absent", "partial"}
        /\ \A j \in (k + 1)..Len(ReportFiles[script]) :
               files[ReportFiles[script][j]] = "absent"

FetchReturned == fetch_status = "returned"

Failed(resp) == resp # None /\ resp.status # "ok"

\* the records a success response contributes when every item is well-formed
Retained(type, resp) ==
    IF resp = None \/ resp.status # "ok" THEN <<>>
    ELSE ProcessItems(script, type, <<>>, resp.items).list

\* C6: when the request for one resource type fails or returns a
\* non-success response, that type contributes nothing, the other type is
\* still requested and its comments are returned.
C6_PartialResultTolerance ==
    (FetchReturned /\ github_token) =>
        /\ Failed(comments_resp) =>
               /\ reviews_resp # None
               /\ all_reviews = Retained("general_review", reviews_resp)
        /\ Failed(reviews_resp) =>
               /\ comments_resp # None
               /\ all_reviews = Retained("line_comment", comments_resp)

IsReviewList(l) ==
    \A i \in 1..Len(l) :
        /\ l[i].type \in {"line_comment", "general_review"}
        /\ l[i].user \in Users
        /\ l[i].body \in AllBodies

\* C7: fetch_pr_reviews never raises to its caller: without a credential,
\* after a network or API error and after a malformed item it returns a
\* list of comment records and the run goes on.
C7_FetchNeverRaises ==
    /\ fetch_status # "raised"
    /\ ~Printed("Traceback: KeyError")
    /\ ~Printed("Traceback: HTTPError")
    /\ ~Printed("Traceback: ConnectionError")
    /\ FetchReturned => IsReviewList(all_reviews)
    /\ (pc = "fetched") => FetchReturned

\* fetch_pr_reviews has returned the comments read before a malformed
\* general review raised KeyError
C7_Witness ==
    /\ pc = "fetched"
    /\ FetchReturned
    /\ Printed("Error fetching reviews")
    /\ comments_resp # None /\ comments_resp.status = "ok"
    /\ reviews_resp # None /\ reviews_resp.status = "ok"
    /\ \E i \in 1..Len(reviews_resp.items) : reviews_resp.items[i].missing = "body"
    /\ Len(all_reviews) >= 1

\* ------------------------------------------------------------------------
\* Best-performer selection on its own: the report step applied to result
\* sets of up to MaxModels models (checked under SpecBest)
\* ------------------------------------------------------------------------
\* reviewer identities that analyze_model_performance retains
ModelNames == <<"github-actions[bot]", "review-bot", "dependabot[bot]", "ai-bot",
                "copilot-bot">>

\* result sets analyze_model_performance can return: the i-th retained
\* model has one comment with any of the bodies
ResultSets(s) ==
    UNION {
        {[i \in 1..n |->
             [name |-> ModelNames[i],
              data |-> AnalyzeSingleModel(s, <<Review(ModelNames[i], bs[i],
                                                      "line_comment")>>)]] :
            bs \in [1..n -> Bodies]} :
        n \in 0..MaxModels}

BestInit ==
    /\ ScoreIdle
    /\ ToolIdle
    /\ script \in Scripts
    /\ pc = "report"
    /\ results \in ResultSets(script)
    /\ github_token = TRUE
    /\ comments_resp = None
    /\ reviews_resp = None
    /\ requested = <<>>
    /\ all_reviews = <<>>
    /\ fetch_status = "returned"
    /\ text_report = None
    /\ summary = None
    /\ console = <<>>
    /\ dir_created = FALSE
    /\ files = [f \in AllFiles |-> "absent"]
    /\ exit_code = -1

\* simple-analyzer.py: generate_text_report(results, pr_number)
GenerateTextReport ==
    /\ pc = "report"
    /\ script = "simple"
    /\ text_report' = generate_text_report(results)
    /\ summary' = text_report'.top_performers
    /\ pc' = "reported"
    /\ UNCHANGED <<script, github_token, comments_resp, reviews_resp, requested,
                   all_reviews, fetch_status, results, console, dir_created, files,
                   exit_code, scoreVars, toolVars>>

\* analyze-benchmark.py: the summary built by _generate_json_report
GenerateJsonSummary ==
    /\ pc = "report"
    /\ script = "benchmark"
    /\ summary' = JsonSummary(results)
    /\ pc' = "reported"
    /\ UNCHANGED <<script, github_token, comments_resp, reviews_resp, requested,
                   all_reviews, fetch_status, results, text_report, console,
                   dir_created, files, exit_code, scoreVars, toolVars>>

BestNext ==
    \/ GenerateTextReport
    \/ GenerateJsonSummary

SpecBest == BestInit /\ [][BestNext]_vars

\* the model named `name` has a maximal `field` and is the first such model
\* in insertion order
FirstMaximal(name, field) ==
    \E i \in 1..Len(results) :
        /\ results[i].name = name
        /\ \A j \in 1..Len(results) :
               RatLeq(results[j].data[field], results[i].data[field])
        /\ \A j \in 1..(i - 1) :
               RatLess(results[j].data[field], results[i].data[field])

\* C8: for every non-empty result set each of best_overall, best_security,
\* best_performance and best_quality names a model whose score is maximal,
\* and among several maximal models the one inserted first.
C8_BestIsFirstMaximal ==
    (pc = "reported" /\ results # <<>>) =>
        /\ FirstMaximal(summary.best_overall, "detection_rate")
        /\ FirstMaximal(summary.best_security, "security_score")
        /\ FirstMaximal(summary.best_performance, "performance_score")
        /\ FirstMaximal(summary.best_quality, "quality_score")

\* three models, the second and third tie for the best detection rate
\* above the first: the second is selected
C8_Witness ==
    /\ pc = "reported"
    /\ Len(results) = 3
    /\ RatLess(results[1].data.detection_rate, results[2].data.detection_rate)
    /\ RatEq(results[2].data.detection_rate, results[3].data.detection_rate)
    /\ summary.best_overall = results[2].name

\* ------------------------------------------------------------------------
\* Per-comment increments of the two scorers (checked under SpecScore)
\* ------------------------------------------------------------------------
\* the set of keywords of category c of scorer s that the lowercased body
\* contains
DistinctKeywordsOf ==
    [s \in Scorers |-> [b \in AllBodies |-> [c \in Categories |->
        {kw \in {KeywordsOf(s)[c][i] : i \in 1..Len(KeywordsOf(s)[c])} :
            StrContains(kw, LowerOf[b])}]]]

StatedCap == [security |-> 3, performance |-> 2, quality |-> 2]

LastBody(revs) == revs[Len(revs)].body

\* C17: in the weighted scorer every comment adds to each category's
\* detected count the number of distinct keywords of the category that its
\* lowercased body contains, capped at 3 (security) and 2 (performance,
\* quality); so after n comments security <= 3n, performance <= 2n and
\* quality <= 2n.
C17_WeightedIncrement ==
    /\ [][(scorer = "simple" /\ Len(reviews') = Len(reviews) + 1) =>
            \A c \in Categories :
                LET n == Cardinality(DistinctKeywordsOf["simple"][LastBody(reviews')][c])
                IN  detected_issues'[c] - detected_issues[c]
                        = IF n < StatedCap[c] THEN n ELSE StatedCap[c]]_vars
    /\ [](scorer = "simple" =>
            \A c \in Categories : detected_issues[c] <= StatedCap[c] * Len(reviews))

\* one comment holding four security, three performance and three quality
\* keywords has added exactly the caps
C17_Witness ==
    /\ scorer = "simple"
    /\ Len(reviews) = 1
    /\ Cardinality(DistinctKeywordsOf["simple"][reviews[1].body].security) > 3
    /\ Cardinality(DistinctKeywordsOf["simple"][reviews[1].body].performance) > 2
    /\ Cardinality(DistinctKeywordsOf["simple"][reviews[1].body].quality) > 2
    /\ detected_issues = [security |-> 3, performance |-> 2, quality |-> 2]

\* C18: in the presence-based scorer every comment adds exactly 1 to a
\* category's detected count if its lowercased body contains a keyword of
\* the category and 0 otherwise; so every detected count is at most
\* total_comments and total_detected at most 3 * total_comments.
C18_PresenceIncrement ==
    /\ [][(scorer = "benchmark" /\ Len(reviews') = Len(reviews) + 1) =>
            \A c \in Categories :
                detected_issues'[c] - detected_issues[c]
                    = IF DistinctKeywordsOf["benchmark"][LastBody(reviews')][c] # {}
                      THEN 1 ELSE 0]_vars
    /\ [](Returned("benchmark") =>
            /\ \A c \in Categories :
                  result.detected_issues[c] <= result.total_comments
            /\ result.total_detected <= 3 * result.total_comments)

\* two comments, each holding several keywords of every category, have
\* added one per category each, and the result reaches the bound 3n
C18_Witness ==
    /\ Returned("benchmark")
    /\ Len(reviews) = 2
    /\ \A i \in 1..2 : \A c \in Categories :
          Cardinality(DistinctKeywordsOf["benchmark"][reviews[i].body][c]) > 1
    /\ result.total_comments = 2
    /\ result.total_detected = 6

\* ------------------------------------------------------------------------
\* Content and order of the list fetch_pr_reviews returns (checked under Spec)
\* ------------------------------------------------------------------------
HasBody(it) == it.body # ""

\* the comment records of the items of a success response, in response
\* order, general reviews with an empty body left out
Normalised(type, resp) ==
    IF resp = None \/ resp.status # "ok" THEN <<>>
    ELSE LET kept == IF type = "general_review"
                     THEN SelectSeq(resp.items, HasBody)
                     ELSE resp.items
         IN  [i \in 1..Len(kept) |-> Review(kept[i].user, kept[i].body, type)]

ExpectedList ==
    Normalised("line_comment", comments_resp)
        \o Normalised("general_review", reviews_resp)

Occurrences(list, r) == Cardinality({i \in 1..Len(list) : list[i] = r})

IsPrefix(a, b) == Len(a) <= Len(b) /\ a = SubSeq(b, 1, Len(a))

\* C19: the returned list holds no general review with an empty body, and
\* every line comment and every general review with a non-empty body of a
\* success response occurs in it exactly as often as in the response.
C19_NormalizationAsStated ==
    FetchReturned =>
        /\ \A i \in 1..Len(all_reviews) :
              all_reviews[i].type = "general_review" => all_reviews[i].body # ""
        /\ \A i \in 1..Len(ExpectedList) :
              Occurrences(all_reviews, ExpectedList[i])
                  = Occurrences(ExpectedList, ExpectedList[i])

\* C20: the returned list is in API response order: the line comments in
\* the order of the comments response, then the retained general reviews in
\* the order of the reviews response; it is the whole of that sequence
\* unless the fetch was cut short by an error.
C20_ResponseOrderPreserved ==
    FetchReturned =>
        /\ IsPrefix(all_reviews, ExpectedList)
        /\ ~Printed("Error fetching reviews") => all_reviews = ExpectedList

\* two line comments by different authors and two general reviews by
\* different authors came back in response order
C20_Witness ==
    /\ FetchReturned
    /\ Len(all_reviews) = 4
    /\ all_reviews[1].type = "line_comment" /\ all_reviews[2].type = "line_comment"
    /\ all_reviews[1].user # all_reviews[2].user
    /\ all_reviews[3].type = "general_review" /\ all_reviews[4].type = "general_review"
    /\ all_reviews[3].user # all_reviews[4].user
    /\ all_reviews[1].user = comments_resp.items[1].user
    /\ all_reviews[3].user = reviews_resp.items[1].user

\* ------------------------------------------------------------------------
\* The run on comments that no automated-model author wrote (checked under
\* Spec)
\* ------------------------------------------------------------------------
\* comments were fetched, all of them written by the human author, the run
\* is over and no output error ended it
OnlyHumanComments ==
    /\ Exited
    /\ FetchReturned
    /\ all_reviews # <<>>
    /\ \A i \in 1..Len(all_reviews) : all_reviews[i].user = HumanUser
    /\ ~OutputFailed

AllReportFilesWritten == \A f \in ScriptFiles : files[f] = "full"

\* C13 as stated: when comments are fetched but none is by an
\* automated-model author, the run still writes its report files, the text
\* report says that no AI model reviews were detected, and the exit code
\* is 0.
C13_EmptyReportAsStated ==
    OnlyHumanComments =>
        /\ AllReportFilesWritten
        /\ text_report # None /\ text_report.no_models
        /\ exit_code = 0

\* C13 amended: in that case, unless an output error occurs,
\* simple-analyzer writes its three report files, its text report saying
\* that no AI model reviews were detected; analyze-benchmark prints "No AI
\* model reviews detected" and writes no report file; both end with exit
\* code 0.
C13_EmptyReportPerScript ==
    OnlyHumanComments =>
        /\ exit_code = 0
        /\ results = <<>>
        /\ Printed("No AI model reviews detected")
        /\ script = "simple" =>
              /\ AllReportFilesWritten
              /\ text_report # None /\ text_report.no_models
        /\ script = "benchmark" =>
              /\ NoReportFile
              /\ ~dir_created
              /\ text_report = None

\* simple-analyzer has written its three files for a PR on which only the
\* human author commented
C13_Witness ==
    /\ OnlyHumanComments
    /\ script = "simple"
    /\ Len(all_reviews) >= 2
    /\ AllReportFilesWritten
    /\ text_report.no_models
    /\ exit_code = 0

\* ------------------------------------------------------------------------
\* analyze_model_performance on its own: called twice in a row on one
\* fetched list of up to MaxReviews comments (SpecAnalyze)
\* ------------------------------------------------------------------------
AnalyzeUsers == {BotUser, "ReviewBot", "GitHub-Actions", HumanUser}

AnalyzeInputs ==
    {Review(u, b, "line_comment") : u \in AnalyzeUsers, b \in {BodyAll, BodyNone}}

AnalyzeInit ==
    /\ ScoreIdle
    /\ ToolIdle
    /\ script \in Scripts
    /\ pc = "fetched"
    /\ github_token = TRUE
    /\ comments_resp = None
    /\ reviews_resp = None
    /\ requested = <<>>
    /\ all_reviews \in SeqsUpTo(AnalyzeInputs, MaxReviews)
    /\ fetch_status = "returned"
    /\ results = <<>>
    /\ text_report = None
    /\ summary = None
    /\ console = <<>>
    /\ dir_created = FALSE
    /\ files = [f \in AllFiles |-> "absent"]
    /\ exit_code = -1

\* results = analyzer.analyze_model_performance(reviews)
AnalyzeFirst ==
    /\ pc = "fetched"
    /\ results' = analyze_model_performance(script, all_reviews)
    /\ pc' = "analyzed"
    /\ UNCHANGED <<script, github_token, comments_resp, reviews_resp, requested,
                   all_reviews, fetch_status, text_report, summary, console,
                   dir_created, files, exit_code, scoreVars, toolVars>>

\* the same call once more, on the same analyzer and the same list
AnalyzeAgain ==
    /\ pc = "analyzed"
    /\ second_results' = analyze_model_performance(script, all_reviews)
    /\ pc' = "analyzed_again"
    /\ UNCHANGED <<script, github_token, comments_resp, reviews_resp, requested,
                   all_reviews, fetch_status, results, text_report, summary, console,
                   dir_created, files, exit_code, scoreVars, gitVars, cli_arg, academic_pc,
                   self_results, pr_numbers, pr_pos, api_seen, runs, first_run_results,
                   csv_rows, workflow, calls>>

AnalyzeNext ==
    \/ AnalyzeFirst
    \/ AnalyzeAgain

SpecAnalyze == AnalyzeInit /\ [][AnalyzeNext]_vars

MarkedLogins == {"github-actions[bot]", "ReviewBot", "GitHub-Actions"}

CommentsBy(u) == Cardinality({j \in 1..Len(all_reviews) : all_reviews[j].user = u})

\* C16: analyze_model_performance returns one result for each author whose
\* login contains "github-actions" or "bot" (case ignored) and who wrote at
\* least one comment, none for any other author, and each result's
\* total_comments is the number of comments of that author in the input.
C16_ExactlyMarkedAuthors ==
    pc \in {"analyzed", "analyzed_again"} =>
        /\ {results[i].name : i \in 1..Len(results)}
               = {u \in MarkedLogins : CommentsBy(u) >= 1}
        /\ \A i, j \in 1..Len(results) : results[i].name = results[j].name => i = j
        /\ \A i \in 1..Len(results) :
               results[i].data.total_comments = CommentsBy(results[i].name)

\* of three comments, two by "ReviewBot" and one by the human author, only
\* ReviewBot has a result, with total_comments 2
C16_Witness ==
    /\ pc = "analyzed"
    /\ Len(all_reviews) = 3
    /\ CommentsBy("ReviewBot") = 2
    /\ CommentsBy(HumanUser) = 1
    /\ Len(results) = 1
    /\ results[1].name = "ReviewBot"
    /\ results[1].data.total_comments = 2

\* ------------------------------------------------------------------------
\* switch-ai-model.py: MODELS_CONFIG and update_workflow_file (SpecSwitch)
\* ------------------------------------------------------------------------
UpperChar(c) ==
    IF \E i \in 1..Len(LowerChars) : CharAt(LowerChars, i) = c
    THEN CharAt(UpperChars, CHOOSE i \in 1..Len(LowerChars) : CharAt(LowerChars, i) = c)
    ELSE c

RECURSIVE StrUpper(_)
StrUpper(s) ==
    IF Len(s) = 0 THEN s
    ELSE UpperChar(CharAt(s, 1)) \o StrUpper(SubSeq(s, 2, Len(s)))

\* the dict in insertion order; temperature as f'{...}' prints the float;
\* descriptions without their diacritics
MODELS_CONFIG ==
    <<[key |-> "o1-mini", provider |-> "openai", model |-> "o1-mini",
       max_tokens |-> 3000, temperature |-> "0.1",
       description |-> "O1-Mini - Modelo de raciocinio compacto"],
      [key |-> "gpt-4.1", provider |-> "openai", model |-> "gpt-4-turbo",
       max_tokens |-> 4000, temperature |-> "0.2",
       description |-> "GPT-4.1 (GPT-4-Turbo) - Versao otimizada"],
      [key |-> "gpt-5", provider |-> "openai", model |-> "gpt-4o",
       max_tokens |-> 4000, temperature |-> "0.15",
       description |-> "GPT-5 (GPT-4o mais recente) - Ultima versao"],
      [key |-> "gpt-4o", provider |-> "openai", model |-> "gpt-4o",
       max_tokens |-> 3000, temperature |-> "0.2",
       description |-> "GPT-4o - Modelo otimizado padrao"],
      [key |-> "gpt-4-turbo", provider |-> "openai", model |-> "gpt-4-turbo",
       max_tokens |-> 3000, temperature |-> "0.2",
       description |-> "GPT-4-Turbo - Versao turbo"],
      [key |-> "o1-preview", provider |-> "openai", model |-> "o1-preview",
       max_tokens |-> 3000, temperature |-> "0.1",
       description |-> "O1-Preview - Modelo de raciocinio avancado"],
      [key |-> "claude", provider |-> "anthropic", model |-> "claude-3-5-sonnet-20241022",
       max_tokens |-> 3000, temperature |-> "0.3",
       description |-> "Claude 3.5 Sonnet - Modelo da Anthropic"],
      [key |-> "llama", provider |-> "groq", model |-> "llama-3.1-8b-instant",
       max_tokens |-> 2000, temperature |-> "0.3",
       description |-> "Llama 3.1 8B - Via Groq"]>>

ModelKeys == {MODELS_CONFIG[i].key : i \in 1..Len(MODELS_CONFIG)}

\* MODELS_CONFIG[model_key]
ConfigOf(model_key) ==
    MODELS_CONFIG[CHOOSE i \in 1..Len(MODELS_CONFIG) : MODELS_CONFIG[i].key = model_key]

\* the four lines update_workflow_file writes
ProviderLine(model_key) ==
    "          provider: \"" \o ConfigOf(model_key).provider
        \o "\"              # Modelo atual: " \o ConfigOf(model_key).description

ModelLine(model_key) ==
    "          model: \"" \o ConfigOf(model_key).model
        \o "\"                 # " \o StrUpper(model_key) \o " configurado automaticamente"

MaxTokensLine(model_key) ==
    "          max-tokens: " \o ToString(ConfigOf(model_key).max_tokens)
        \o "                # Token limit otimizado para " \o model_key

TemperatureLine(model_key) ==
    "          temperature: " \o ConfigOf(model_key).temperature
        \o "                # Temperatura otimizada para " \o model_key

\* the workflow file before any switch: its four configuration lines carry
\* the comments that update_workflow_file looks for
WorkflowTemplate ==
    <<"      - uses: ./",
      "          provider: \"openai\"              # Options: openai, anthropic, groq",
      "          model: \"gpt-4o\"                 # OpenAI: gpt-4o, gpt-4-turbo, o1-mini",
      "          max-tokens: 3000                # Token limit for the review",
      "          temperature: 0.2                # Creativity of the review",
      "          github-token: ${{ secrets.GITHUB_TOKEN }}">>

\* every line the file can hold
AllLines ==
    {WorkflowTemplate[i] : i \in 1..Len(WorkflowTemplate)}
        \cup {ProviderLine(k) : k \in ModelKeys} \cup {ModelLine(k) : k \in ModelKeys}
        \cup {MaxTokensLine(k) : k \in ModelKeys}
        \cup {TemperatureLine(k) : k \in ModelKeys}

\* the branch of the if/elif chain that a line takes
LineKind(line) ==
    IF StrContains("provider:", line) /\ StrContains("# Options:", line) THEN "provider"
    ELSE IF StrContains("model:", line) /\ StrContains("OpenAI:", line) THEN "model"
    ELSE IF StrContains("max-tokens:", line) /\ StrContains("# Token limit", line)
    THEN "max-tokens"
    ELSE IF StrContains("temperature:", line) /\ StrContains("# Creativity", line)
    THEN "temperature"
    ELSE "other"

LineKindOf == [line \in AllLines |-> LineKind(line)]

\* the line appended to new_lines for a line of the file
NewLine(line, model_key) ==
    CASE LineKindOf[line] = "provider"    -> ProviderLine(model_key)
      [] LineKindOf[line] = "model"       -> ModelLine(model_key)
      [] LineKindOf[line] = "max-tokens"  -> MaxTokensLine(model_key)
      [] LineKindOf[line] = "temperature" -> TemperatureLine(model_key)
      [] OTHER                            -> line

SwitchInit ==
    /\ ScoreIdle
    /\ PipelineIdle
    /\ second_results = None
    /\ cli_arg = None
    /\ academic_pc = "idle"
    /\ self_results = <<>>
    /\ pr_numbers = <<>>
    /\ pr_pos = 0
    /\ api_seen = <<>>
    /\ runs = 0
    /\ first_run_results = None
    /\ csv_rows = None
    /\ GitIdle
    /\ workflow = WorkflowTemplate
    /\ calls = <<>>

\* update_workflow_file(model_key): read, rewrite line by line, write, print
update_workflow_file(model_key) ==
    /\ workflow' = [i \in 1..Len(workflow) |-> NewLine(workflow[i], model_key)]
    /\ calls' = Append(calls, model_key)
    /\ PrintMsg("Workflow atualizado para " \o ConfigOf(model_key).description)

UpdateWorkflowFile ==
    /\ Len(calls) < MaxCalls
    /\ \E model_key \in ModelKeys : update_workflow_file(model_key)
    /\ UNCHANGED <<script, pc, github_token, comments_resp, reviews_resp, requested,
                   all_reviews, fetch_status, results, text_report, summary,
                   dir_created, files, exit_code, scoreVars, gitVars, second_results, cli_arg,
                   academic_pc, self_results, pr_numbers, pr_pos, api_seen, runs,
                   first_run_results, csv_rows>>

SwitchNext == UpdateWorkflowFile

SpecSwitch == SwitchInit /\ [][SwitchNext]_vars

\* reading the file back: the value a configuration line sets
FirstIndex(s, ch, from) ==
    LET at == {i \in from..Len(s) : CharAt(s, i) = ch}
    IN  IF at = {} THEN Len(s) + 1 ELSE CHOOSE i \in at : \A j \in at : i <= j

QuotedValue(line) ==
    LET a == FirstIndex(line, "\"", 1)
    IN  SubSeq(line, a + 1, FirstIndex(line, "\"", a + 1) - 1)

BareValue(line) ==
    LET a == FirstIndex(line, ":", 1)
    IN  SubSeq(line, a + 2, FirstIndex(line, " ", a + 2) - 1)

SettingOf ==
    [line \in AllLines |->
        IF StrContains("provider:", line) \/ StrContains("model:", line)
        THEN QuotedValue(line)
        ELSE IF StrContains("max-tokens:", line) \/ StrContains("temperature:", line)
        THEN BareValue(line)
        ELSE ""]

\* the setting of the line of the file that sets `field`
FileSetting(field) ==
    SettingOf[workflow[CHOOSE i \in 1..Len(workflow) :
                           StrContains(field \o ":", workflow[i])]]

LastKey == calls[Len(calls)]

\* C15: after any sequence of update_workflow_file calls, the provider,
\* model, max-tokens and temperature lines of the workflow file hold the
\* configuration of the model key of the most recent call.
C15_FileHoldsLastModel ==
    calls # <<>> =>
        /\ FileSetting("provider") = ConfigOf(LastKey).provider
        /\ FileSetting("model") = ConfigOf(LastKey).model
        /\ FileSetting("max-tokens") = ToString(ConfigOf(LastKey).max_tokens)
        /\ FileSetting("temperature") = ConfigOf(LastKey).temperature

\* ------------------------------------------------------------------------
\* academic-analyzer.py: AIModelAnalyzer (SpecAcademic)
\* ------------------------------------------------------------------------
SUPPORTED_MODELS ==
    <<[key |-> "o1-mini", name |-> "O1-Mini"],
      [key |-> "gpt-4.1", name |-> "GPT-4.1"],
      [key |-> "gpt-5", name |-> "GPT-5"],
      [key |-> "gpt-4o", name |-> "GPT-4o"],
      [key |-> "gpt-4-turbo", name |-> "GPT-4-Turbo"],
      [key |-> "o1-preview", name |-> "O1-Preview"],
      [key |-> "claude", name |-> "Claude-3.5-Sonnet"],
      [key |-> "llama", name |-> "Llama-3.1-8B"]>>

model_patterns ==
    <<[key |-> "o1-mini", name |-> "O1-Mini"],
      [key |-> "gpt-4.1", name |-> "GPT-4.1"],
      [key |-> "gpt-5", name |-> "GPT-5"],
      [key |-> "o1-preview", name |-> "O1-Preview"],
      [key |-> "gpt-4-turbo", name |-> "GPT-4-Turbo"],
      [key |-> "gpt-4o", name |-> "GPT-4o"],
      [key |-> "claude-3-5-sonnet", name |-> "Claude-3.5-Sonnet"],
      [key |-> "claude", name |-> "Claude-3.5-Sonnet"],
      [key |-> "llama-3.1", name |-> "Llama-3.1-8B"],
      [key |-> "llama", name |-> "Llama-3.1-8B"],
      [key |-> "groq", name |-> "Llama-3.1-8B"]>>

\* the name of the first pattern of the list found in the text, "" if none
FirstPattern(patterns, text) ==
    LET at == {i \in 1..Len(patterns) : StrContains(patterns[i].key, text)}
    IN  IF at = {} THEN ""
        ELSE patterns[CHOOSE i \in at : \A j \in at : i <= j].name

extract_model_from_title(title) ==
    LET title_lower == StrLower(title)
    IN  IF FirstPattern(model_patterns, title_lower) # ""
        THEN FirstPattern(model_patterns, title_lower)
        ELSE IF FirstPattern(SUPPORTED_MODELS, title_lower) # ""
        THEN FirstPattern(SUPPORTED_MODELS, title_lower)
        ELSE "Unknown"

Titles == {"Test GPT-4o review", "Update README"}

ModelOfTitle == [t \in Titles |-> extract_model_from_title(t)]

\* analyze_comment_quality: security_focus and quality_focus
AcademicKeywords ==
    [security |-> <<"sql injection", "xss", "cross-site scripting", "vulnerability",
                    "security", "injection", "hardcoded", "password", "secret",
                    "authentication", "authorization", "csrf", "path traversal">>,
     quality  |-> <<"refactor", "improve", "optimize", "performance", "maintainability",
                    "readability", "best practice", "convention", "pattern">>]

analyze_comment_quality ==
    [b \in AllBodies |->
        [security_focus |-> KeywordMatches(AcademicKeywords.security, LowerOf[b]) > 0,
         quality_focus  |-> KeywordMatches(AcademicKeywords.quality, LowerOf[b]) > 0]]

\* the PRs of the model and what the API answers for one of them: both
\* requests succeed, one of them returns a non-200 status, or the
\* connection fails
PrNumbers == {27, 28, 29, 30}

ApiAnswers ==
    {[kind |-> "ok", title |-> t, comments |-> cs] :
        t \in Titles, cs \in {<<>>, <<BodySql>>}}
      \cup {[kind |-> k, title |-> "", comments |-> <<>>] :
                k \in {"pr_failed", "comments_failed", "network_error"}}

\* the dict collect_pr_comments returns when both requests succeed
CollectedResult(pr_number, ans) ==
    [pr_number      |-> pr_number,
     title          |-> ans.title,
     model          |-> ModelOfTitle[ans.title],
     total_comments |-> Len(ans.comments),
     comments       |-> ans.comments]

\* the requests collect_pr_comments issues before it returns or raises
RequestsOf(ans) ==
    IF ans.kind \in {"pr_failed", "network_error"} THEN <<"pr">>
    ELSE <<"pr", "comments">>

CountWhere(comments, focus) ==
    Cardinality({i \in 1..Len(comments) : analyze_comment_quality[comments[i]][focus]})

\* the rows of the data frame of generate_comparison_graphs (model and
\* comment counts), one per entry of self.results
DataFrameRows(res) ==
    [i \in 1..Len(res) |->
        [Model             |-> res[i].model,
         Total_Comments    |-> res[i].total_comments,
         Security_Comments |-> CountWhere(res[i].comments, "security_focus"),
         Quality_Comments  |-> CountWhere(res[i].comments, "quality_focus")]]

\* AIModelAnalyzer() constructed, run_analysis(pr_numbers) called
AnalyzerConstructed ==
    /\ second_results = None
    /\ academic_pc = "loop"
    /\ self_results = <<>>
    /\ pr_pos = 1
    /\ api_seen = [p \in PrNumbers |-> None]
    /\ runs = 0
    /\ first_run_results = None
    /\ csv_rows = None
    /\ GitIdle
    /\ workflow = <<>>
    /\ calls = <<>>

AcademicInit ==
    /\ ScoreIdle
    /\ PipelineIdle
    /\ AnalyzerConstructed
    /\ cli_arg = None
    /\ pr_numbers \in SeqsUpTo({27, 28}, MaxPrs)

\* one iteration of `for pr_num in pr_numbers`: collect_pr_comments and
\* the append to self.results; the API answers a PR requested before as
\* it did then
AcademicCollect ==
    /\ academic_pc = "loop"
    /\ pr_pos <= Len(pr_numbers)
    /\ LET pr_num == pr_numbers[pr_pos]
       IN  \E ans \in (IF api_seen[pr_num] = None THEN ApiAnswers ELSE {api_seen[pr_num]}) :
              /\ api_seen' = [api_seen EXCEPT ![pr_num] = ans]
              /\ requested' = requested \o RequestsOf(ans)
              /\ IF ans.kind = "network_error"
                 THEN /\ academic_pc' = "raised"
                      /\ UNCHANGED <<self_results, pr_pos, console>>
                 ELSE IF ans.kind = "ok"
                 THEN /\ self_results' = Append(self_results, CollectedResult(pr_num, ans))
                      /\ pr_pos' = pr_pos + 1
                      /\ PrintMsg("Collected comments")
                      /\ UNCHANGED academic_pc
                 ELSE /\ pr_pos' = pr_pos + 1
                      /\ PrintMsg("Failed to collect data")
                      /\ UNCHANGED <<academic_pc, self_results>>
    /\ UNCHANGED <<script, pc, github_token, comments_resp, reviews_resp, all_reviews,
                   fetch_status, results, text_report, summary, dir_created, files,
                   exit_code, scoreVars, gitVars, second_results, cli_arg, pr_numbers, runs,
                   first_run_results, csv_rows, workflow, calls>>

\* after the loop: generate_comparison_graphs over self.results, or the
\* "No data collected" message; run_analysis returns
AcademicGraphs ==
    /\ academic_pc = "loop"
    /\ pr_pos > Len(pr_numbers)
    /\ IF self_results # <<>>
       THEN /\ csv_rows' = DataFrameRows(self_results)
            /\ PrintMsg("Graph saved")
       ELSE /\ PrintMsg("No data collected for analysis")
            /\ UNCHANGED csv_rows
    /\ academic_pc' = "done"
    /\ runs' = runs + 1
    /\ first_run_results' =
          IF runs = 0 THEN [results |-> self_results, rows |-> csv_rows']
          ELSE first_run_results
    /\ UNCHANGED <<script, pc, github_token, comments_resp, reviews_resp, requested,
                   all_reviews, fetch_status, results, text_report, summary,
                   dir_created, files, exit_code, scoreVars, gitVars, second_results, cli_arg,
                   self_results, pr_numbers, pr_pos, api_seen, workflow, calls>>

\* run_analysis(pr_numbers) called again on the same analyzer
AcademicRunAgain ==
    /\ academic_pc = "done"
    /\ runs < MaxRuns
    /\ academic_pc' = "loop"
    /\ pr_pos' = 1
    /\ UNCHANGED <<pipeVars, scoreVars, gitVars, second_results, cli_arg, self_results,
                   pr_numbers, api_seen, runs, first_run_results, csv_rows, workflow,
                   calls>>

AcademicNext ==
    \/ AcademicCollect
    \/ AcademicGraphs
    \/ AcademicRunAgain

SpecAcademic == AcademicInit /\ [][AcademicNext]_vars

\* C14: when run_analysis has been called again on the same analyzer with
\* the same PR list and the same API answers, the result set (self.results
\* and the rows saved from it) is what the first run produced.
C14_SecondRunSameResults ==
    (academic_pc = "done" /\ runs >= 2) =>
        /\ self_results = first_run_results.results
        /\ csv_rows = first_run_results.rows

\* ------------------------------------------------------------------------
\* The entry points: main of simple-analyzer.py, analyze-benchmark.py and
\* academic-analyzer.py, followed by the run they start (SpecMain)
\* ------------------------------------------------------------------------
Digits == "0123456789"

IsDigit(c) == \E i \in 1..Len(Digits) : CharAt(Digits, i) = c

DigitValue(c) == (CHOOSE i \in 1..Len(Digits) : CharAt(Digits, i) = c) - 1

\* str.strip() of blanks
RECURSIVE StripLeft(_)
StripLeft(s) ==
    IF Len(s) > 0 /\ CharAt(s, 1) = " " THEN StripLeft(SubSeq(s, 2, Len(s))) ELSE s

RECURSIVE StripRight(_)
StripRight(s) ==
    IF Len(s) > 0 /\ CharAt(s, Len(s)) = " " THEN StripRight(SubSeq(s, 1, Len(s) - 1))
    ELSE s

Strip(s) == StripRight(StripLeft(s))

\* the digits of an int literal: digits, single underscores between them
ValidDigits(s) ==
    /\ Len(s) > 0
    /\ IsDigit(CharAt(s, 1)) /\ IsDigit(CharAt(s, Len(s)))
    /\ \A i \in 1..Len(s) : IsDigit(CharAt(s, i)) \/ CharAt(s, i) = "_"
    /\ \A i \in 1..(Len(s) - 1) : ~(CharAt(s, i) = "_" /\ CharAt(s, i + 1) = "_")

RECURSIVE DigitsValue(_, _)
DigitsValue(acc, s) ==
    IF Len(s) = 0 THEN acc
    ELSE IF CharAt(s, 1) = "_" THEN DigitsValue(acc, SubSeq(s, 2, Len(s)))
    ELSE DigitsValue(acc * 10 + DigitValue(CharAt(s, 1)), SubSeq(s, 2, Len(s)))

ValueError == [error |-> "ValueError"]
Parsed(v) == [value |-> v]

\* int(s) for a str: blanks stripped, an optional sign, then digits
PyInt(s) ==
    LET t == Strip(s)
        signed == Len(t) > 0 /\ CharAt(t, 1) \in {"+", "-"}
        body == IF signed THEN SubSeq(t, 2, Len(t)) ELSE t
    IN  IF ~ValidDigits(body) THEN ValueError
        ELSE IF signed /\ CharAt(t, 1) = "-" THEN Parsed(0 - DigitsValue(0, body))
        ELSE Parsed(DigitsValue(0, body))

\* s.split(',')
RECURSIVE Split(_, _)
Split(cur, s) ==
    IF Len(s) = 0 THEN <<cur>>
    ELSE IF CharAt(s, 1) = "," THEN <<cur>> \o Split("", SubSeq(s, 2, Len(s)))
    ELSE Split(cur \o CharAt(s, 1), SubSeq(s, 2, Len(s)))

\* [int(x.strip()) for x in pr_input.split(',')]
ParsePrList(pr_input) ==
    LET parts == Split("", pr_input)
        ints == [i \in 1..Len(parts) |-> PyInt(Strip(parts[i]))]
    IN  IF \E i \in 1..Len(ints) : ints[i] = ValueError THEN ValueError
        ELSE Parsed([i \in 1..Len(ints) |-> ints[i].value])

\* what the user passes as argv[1], or types at the prompt
CliTexts == {"27", "abc", "12a", "", "27,28", "27,abc"}
Arg(text) == [text |-> text]
CliArgs == {Arg(t) : t \in CliTexts}

PyIntOf == [t \in CliTexts |-> PyInt(t)]
ParsePrListOf == [t \in CliTexts |-> ParsePrList(t)]

DefaultPrs == <<27, 28, 29, 30>>

SimpleUsage == "Usage: python3 simple-analyzer.py <pr_number> [output_dir]"
ArgparseUsage == "usage: analyze-benchmark.py [-h] [--output OUTPUT] [--token TOKEN] pr_number"

EntryPoints == {"simple", "benchmark", "academic"}

\* the process starts; cli_arg = None: no argument given / end of input
MainInit ==
    /\ ScoreIdle
    /\ script \in EntryPoints
    /\ pc = "main"
    /\ cli_arg \in CliArgs \cup {None}
    /\ github_token \in BOOLEAN
    /\ comments_resp = None
    /\ reviews_resp = None
    /\ requested = <<>>
    /\ all_reviews = <<>>
    /\ fetch_status = "not_called"
    /\ results = <<>>
    /\ text_report = None
    /\ summary = None
    /\ console = <<>>
    /\ dir_created = FALSE
    /\ files = [f \in AllFiles |-> "absent"]
    /\ exit_code = -1
    /\ second_results = None
    /\ academic_pc = "idle"
    /\ self_results = <<>>
    /\ pr_numbers = <<>>
    /\ pr_pos = 0
    /\ api_seen = [p \in PrNumbers |-> None]
    /\ runs = 0
    /\ first_run_results = None
    /\ csv_rows = None
    /\ GitIdle
    /\ workflow = <<>>
    /\ calls = <<>>

\* simple-analyzer.py main
SimpleMain ==
    /\ pc = "main"
    /\ script = "simple"
    /\ IF cli_arg = None
       THEN /\ PrintMsg(SimpleUsage)
            /\ pc' = "exited"
            /\ exit_code' = 1
       ELSE IF PyIntOf[cli_arg.text] = ValueError
       THEN Abort("ValueError")
       ELSE /\ pc' = "makedirs"
            /\ UNCHANGED <<console, exit_code>>
    /\ UNCHANGED <<script, github_token, comments_resp, reviews_resp, requested,
                   all_reviews, fetch_status, results, text_report, summary,
                   dir_created, files, scoreVars, toolVars>>

\* analyze-benchmark.py main: parser.parse_args() with type=int
BenchmarkMain ==
    /\ pc = "main"
    /\ script = "benchmark"
    /\ IF cli_arg = None
       THEN /\ console' = console \o <<ArgparseUsage, "error: the following arguments are required: pr_number">>
            /\ pc' = "exited"
            /\ exit_code' = 2
       ELSE IF PyIntOf[cli_arg.text] = ValueError
       THEN /\ console' = console \o <<ArgparseUsage, "error: argument pr_number: invalid int value">>
            /\ pc' = "exited"
            /\ exit_code' = 2
       ELSE /\ pc' = "fetch"
            /\ UNCHANGED <<console, exit_code>>
    /\ UNCHANGED <<script, github_token, comments_resp, reviews_resp, requested,
                   all_reviews, fetch_status, results, text_report, summary,
                   dir_created, files, scoreVars, toolVars>>

\* academic-analyzer.py main up to the call of run_analysis: the prompt,
\* input() and the parsing inside `try`; every Exception is caught and main
\* returns
AcademicMain ==
    /\ pc = "main"
    /\ script = "academic"
    /\ LET prompt == <<"Enter the PR numbers you want to analyze (comma-separated):",
                       "Example: 27,28,29,30">>
       IN  IF cli_arg = None
           THEN /\ console' = console \o prompt \o <<"Error: EOF when reading a line">>
                /\ pc' = "exited"
                /\ exit_code' = 0
                /\ UNCHANGED <<pr_numbers, academic_pc, pr_pos>>
           ELSE IF Strip(cli_arg.text) = ""
           THEN /\ console' = console \o prompt \o <<"Using default PRs">>
                /\ pr_numbers' = DefaultPrs
                /\ academic_pc' = "loop"
                /\ pr_pos' = 1
                /\ pc' = "run_analysis"
                /\ UNCHANGED exit_code
           ELSE IF ParsePrListOf[cli_arg.text] = ValueError
           THEN /\ console' = console \o prompt
                                  \o <<"Error: invalid literal for int() with base 10">>
                /\ pc' = "exited"
                /\ exit_code' = 0
                /\ UNCHANGED <<pr_numbers, academic_pc, pr_pos>>
           ELSE /\ console' = console \o prompt
                /\ pr_numbers' = ParsePrListOf[cli_arg.text].value
                /\ academic_pc' = "loop"
                /\ pr_pos' = 1
                /\ pc' = "run_analysis"
                /\ UNCHANGED exit_code
    /\ UNCHANGED <<script, github_token, comments_resp, reviews_resp, requested,
                   all_reviews, fetch_status, results, text_report, summary,
                   dir_created, files, scoreVars, gitVars, second_results, cli_arg, self_results,
                   api_seen, runs, first_run_results, csv_rows, workflow, calls>>

\* run_analysis has returned, or raised into `except Exception`: main returns
AcademicMainReturn ==
    /\ pc = "run_analysis"
    /\ academic_pc \in {"done", "raised"}
    /\ IF academic_pc = "raised"
       THEN PrintMsg("Error: ConnectionError")
       ELSE UNCHANGED console
    /\ pc' = "exited"
    /\ exit_code' = 0
    /\ UNCHANGED <<script, github_token, comments_resp, reviews_resp, requested,
                   all_reviews, fetch_status, results, text_report, summary,
                   dir_created, files, scoreVars, toolVars>>

MainNext ==
    \/ SimpleMain
    \/ BenchmarkMain
    \/ AcademicMain
    \/ AcademicCollect
    \/ AcademicGraphs
    \/ AcademicMainReturn
    \/ Next

SpecMain == MainInit /\ [][MainNext]_vars

\* PR identifiers that are not numbers, whichever entry point reads them
NonNumericArgs == {Arg("abc"), Arg("12a"), Arg("27,abc")}

UsageMessages == {SimpleUsage, ArgparseUsage}

\* C12: given a non-numeric PR identifier, every entry point ends at once,
\* before any network request or file write, having printed a usage
\* message, with a non-zero exit status.
C12_InputErrorsAsStated ==
    (cli_arg \in NonNumericArgs /\ pc # "main") =>
        /\ Exited
        /\ requested = <<>>
        /\ NoReportFile /\ ~dir_created
        /\ \E i \in 1..Len(console) : console[i] \in UsageMessages
        /\ exit_code > 0

\* ------------------------------------------------------------------------
\* Requests of one fetch_pr_reviews call (checked under Spec)
\* ------------------------------------------------------------------------
TimesRequested(endpoint) ==
    Cardinality({i \in 1..Len(requested) : requested[i] = endpoint})

\* C21: in one fetch_pr_reviews call the line-comments endpoint and then
\* the general-reviews endpoint are each requested at most once, nothing is
\* requested again after a failure, and without a credential nothing is
\* requested.
C21_NoRetry ==
    /\ TimesRequested("comments") <= 1
    /\ TimesRequested("reviews") <= 1
    /\ requested \in {<<>>, <<"comments">>, <<"comments", "reviews">>}
    /\ ~github_token => requested = <<>>
    /\ TimesRequested("comments") = (IF comments_resp = None THEN 0 ELSE 1)
    /\ TimesRequested("reviews") = (IF reviews_resp = None THEN 0 ELSE 1)
    /\ Printed("Error fetching reviews") => FetchReturned

\* the comments request failed and the fetch returned without asking again
C21_Witness ==
    /\ FetchReturned
    /\ github_token
    /\ Failed(comments_resp)
    /\ Printed("Error fetching reviews")
    /\ requested = <<"comments">>

\* ------------------------------------------------------------------------
\* Relations between scorer runs (checked under SpecScore)
\* ------------------------------------------------------------------------
BodyOrder == <<BodySql, BodyRace, BodyBoth, BodyNone, BodyAll>>

RECURSIVE Copies(_, _)
Copies(x, n) == IF n = 0 THEN <<>> ELSE <<x>> \o Copies(x, n - 1)

RECURSIVE GroupedFrom(_)
GroupedFrom(k) ==
    IF k > Len(BodyOrder) THEN <<>>
    ELSE Copies(Review(BotUser, BodyOrder[k], "line_comment"), BodyCount(BodyOrder[k]))
             \o GroupedFrom(k + 1)

\* the comments of `reviews` rearranged: grouped by body, in BodyOrder
Grouped == GroupedFrom(1)

Reversed == [i \in 1..Len(reviews) |-> reviews[Len(reviews) + 1 - i]]

\* C22: _analyze_single_model returns the same dict for every permutation
\* of the comment list, in both scorers: the result of the run equals the
\* result on the list grouped by body (one arrangement shared by all
\* permutations of the list) and on the reversed list.
C22_OrderIndependent ==
    \A s \in Scorers :
        Returned(s) =>
            /\ result = AnalyzeSingleModel(s, Grouped)
            /\ result = AnalyzeSingleModel(s, Reversed)

\* a run over three different comments, not in grouped order, with
\* detections in every category
C22_Witness ==
    /\ Returned("simple")
    /\ Len(reviews) = 3
    /\ reviews # Grouped
    /\ reviews[1].body = BodyRace /\ reviews[2].body = BodySql /\ reviews[3].body = BodyAll
    /\ result.detected_issues.security > 0
    /\ result.detected_issues.performance > 0
    /\ result = AnalyzeSingleModel("simple", Grouped)

KeywordSet(keywords) == {keywords[i] : i \in 1..Len(keywords)}

\* C30: every presence-based keyword list is a subset of the weighted list
\* of its category, and on every comment list the raw detected count of
\* the weighted scorer is at least that of the presence-based scorer, in
\* every category.
C30_WeightedAtLeastPresence ==
    /\ \A c \in Categories :
          KeywordSet(BenchmarkKeywords[c]) \subseteq KeywordSet(SimpleKeywords[c])
    /\ scorer = "simple" =>
          \A c \in Categories :
              detected_issues[c] >= BenchmarkLoop(NoDetections, reviews)[c]
    /\ scorer = "benchmark" =>
          \A c \in Categories :
              detected_issues[c] <= SimpleLoop(NoDetections, reviews)[c]

\* on two comments that both match every category the weighted counts are
\* strictly greater than the presence-based ones
C30_Witness ==
    /\ scorer = "simple"
    /\ Len(reviews) = 2
    /\ \A c \in Categories :
          /\ BenchmarkLoop(NoDetections, reviews)[c] = 2
          /\ detected_issues[c] > 2

\* ------------------------------------------------------------------------
\* switch-ai-model.py: main (SpecSwitchMain)
\* ------------------------------------------------------------------------
\* the six steps of main, in the order of the code
SwitchSteps ==
    <<"git checkout main", "git pull origin main", "update_workflow_file",
      "git add .github/workflows/ai-pr-review.yml", "git commit", "git push origin main">>

\* sys.argv[1] of the runs considered; None stands for len(sys.argv) != 2
SwitchTexts == ModelKeys \cup {"GPT-4O", "Claude", "gpt4", ""}
SwitchArgs == {Arg(t) : t \in SwitchTexts} \cup {None}

\* model_key = sys.argv[1].lower()
ModelKeyOf == [t \in SwitchTexts |-> StrLower(t)]

Executed(command, ok) == git_log' = Append(git_log, [cmd |-> command, ok |-> ok])

SysExit(status) ==
    /\ tool_pc' = "exited"
    /\ exit_code' = status

\* run_command: the shell command ran with exit status 0 (ok), or it ran
\* with another status or subprocess.run raised (not ok)
run_command(command, description, ok) ==
    /\ Executed(command, ok)
    /\ PrintMsg((IF ok THEN "Sucesso: " ELSE "Erro: ") \o description)

\* a step whose failure is ignored
AfterStepIgnoringFailure(ok, nextpc) ==
    /\ tool_pc' = nextpc
    /\ UNCHANGED exit_code

\* "if not success: sys.exit(1)"
AfterStep(ok, nextpc) ==
    IF ok THEN tool_pc' = nextpc /\ UNCHANGED exit_code
    ELSE SysExit(1)

SwitchMainInit ==
    /\ ScoreIdle
    /\ PipelineIdle
    /\ second_results = None
    /\ academic_pc = "idle"
    /\ self_results = <<>>
    /\ pr_numbers = <<>>
    /\ pr_pos = 0
    /\ api_seen = <<>>
    /\ runs = 0
    /\ first_run_results = None
    /\ csv_rows = None
    /\ calls = <<>>
    /\ git_log = <<>>
    /\ current_branch = "main"
    /\ original_branch = None
    /\ models_to_test = <<>>
    /\ model_pos = 0
    /\ tester_results = <<>>
    /\ analysis = None
    /\ remote_branches = <<>>
    /\ collected = None
    /\ cli_arg \in SwitchArgs
    /\ workflow = WorkflowTemplate
    /\ tool_pc = "main"

SwitchUnchanged ==
    UNCHANGED <<script, pc, github_token, comments_resp, reviews_resp, requested,
                all_reviews, fetch_status, results, text_report, summary, dir_created,
                files, scoreVars, second_results, cli_arg, academic_pc, self_results,
                pr_numbers, pr_pos, api_seen, runs, first_run_results, csv_rows,
                current_branch, original_branch, models_to_test, model_pos,
                tester_results, analysis, remote_branches, collected>>

\* the argument checks at the top of main
SwitchMainArgs ==
    /\ tool_pc = "main"
    /\ IF cli_arg = None
       THEN PrintMsg("Uso: python3 switch-ai-model.py <modelo>") /\ SysExit(1)
       ELSE IF ModelKeyOf[cli_arg.text] \notin ModelKeys
       THEN PrintMsg("Modelo '" \o ModelKeyOf[cli_arg.text] \o "' nao encontrado!")
            /\ SysExit(1)
       ELSE /\ PrintMsg("Configurando " \o ConfigOf(ModelKeyOf[cli_arg.text]).description)
            /\ tool_pc' = "checkout"
            /\ UNCHANGED exit_code
    /\ UNCHANGED <<git_log, workflow, calls>>
    /\ SwitchUnchanged

\* 1. git checkout main
SwitchCheckout ==
    /\ tool_pc = "checkout"
    /\ \E ok \in BOOLEAN :
          /\ run_command(SwitchSteps[1], "Mudando para branch main", ok)
          /\ AfterStep(ok, "pull")
    /\ UNCHANGED <<workflow, calls>>
    /\ SwitchUnchanged

\* 2. git pull origin main
SwitchPull ==
    /\ tool_pc = "pull"
    /\ \E ok \in BOOLEAN :
          /\ run_command(SwitchSteps[2], "Atualizando branch main", ok)
          /\ AfterStep(ok, "update")
    /\ UNCHANGED <<workflow, calls>>
    /\ SwitchUnchanged

\* 3. update_workflow_file inside try/except Exception: the file is read
\* and rewritten, or open() raises before anything is written, or the write
\* raises after open(..., 'w') emptied the file
SwitchUpdate ==
    /\ tool_pc = "update"
    /\ \/ /\ update_workflow_file(ModelKeyOf[cli_arg.text])
          /\ Executed(SwitchSteps[3], TRUE)
          /\ AfterStep(TRUE, "add")
       \/ /\ \E left \in {workflow, <<>>} : workflow' = left
          /\ Executed(SwitchSteps[3], FALSE)
          /\ PrintMsg("Erro ao atualizar workflow")
          /\ AfterStep(FALSE, "add")
          /\ UNCHANGED calls
    /\ SwitchUnchanged

\* 4. git add .github/workflows/ai-pr-review.yml
SwitchAdd ==
    /\ tool_pc = "add"
    /\ \E ok \in BOOLEAN :
          /\ run_command(SwitchSteps[4], "Adicionando arquivo de workflow", ok)
          /\ AfterStep(ok, "commit")
    /\ UNCHANGED <<workflow, calls>>
    /\ SwitchUnchanged

\* 5. git commit: a failure only prints a warning
SwitchCommit ==
    /\ tool_pc = "commit"
    /\ \E ok \in BOOLEAN :
          /\ Executed(SwitchSteps[5], ok)
          /\ console' = console \o
                (IF ok THEN <<"Sucesso: Fazendo commit das mudancas">>
                 ELSE <<"Erro: Fazendo commit das mudancas", "Nenhuma mudanca para commit">>)
    /\ tool_pc' = "push"
    /\ UNCHANGED <<exit_code, workflow, calls>>
    /\ SwitchUnchanged

\* 6. git push origin main, then the closing messages and a normal return
SwitchPush ==
    /\ tool_pc = "push"
    /\ \E ok \in BOOLEAN :
          /\ Executed(SwitchSteps[6], ok)
          /\ IF ok
             THEN /\ console' = console \o <<"Sucesso: Publicando mudancas na main",
                                             "CONFIGURACAO COMPLETA!">>
                  /\ SysExit(0)
             ELSE /\ PrintMsg("Erro: Publicando mudancas na main")
                  /\ SysExit(1)
    /\ UNCHANGED <<workflow, calls>>
    /\ SwitchUnchanged

SwitchMainNext ==
    \/ SwitchMainArgs
    \/ SwitchCheckout
    \/ SwitchPull
    \/ SwitchUpdate
    \/ SwitchAdd
    \/ SwitchCommit
    \/ SwitchPush

SpecSwitchMain == SwitchMainInit /\ [][SwitchMainNext]_vars

KnownKey == cli_arg # None /\ ModelKeyOf[cli_arg.text] \in ModelKeys

Ran(command) == \E i \in 1..Len(git_log) : git_log[i].cmd = command

\* the steps whose failure ends main
StoppingSteps == {SwitchSteps[i] : i \in {1, 2, 3, 4, 6}}

\* C25: 'git push origin main' runs only with a known model key and after
\* checkout, pull, the workflow update and 'git add' succeeded in that
\* order; the first failure among those steps exits with status 1 and runs
\* nothing later; an unknown key exits with status 1 before any command or
\* file change; a failed commit does not prevent the push.
C25_PushOnlyAfterSuccess ==
    /\ Len(git_log) <= Len(SwitchSteps)
    /\ \A i \in 1..Len(git_log) : git_log[i].cmd = SwitchSteps[i]
    /\ Ran(SwitchSteps[6]) =>
          /\ KnownKey
          /\ \A i \in 1..4 : git_log[i].ok
    /\ \A i \in 1..Len(git_log) :
          (git_log[i].cmd \in StoppingSteps /\ ~git_log[i].ok) =>
              /\ i = Len(git_log)
              /\ tool_pc = "exited"
              /\ exit_code = 1
    /\ ~KnownKey =>
          /\ git_log = <<>>
          /\ workflow = WorkflowTemplate
          /\ tool_pc \in {"main", "exited"}
          /\ tool_pc = "exited" => exit_code = 1
    /\ (tool_pc = "exited" /\ Ran(SwitchSteps[5])) => Ran(SwitchSteps[6])

\* the commit failed and the push was still executed, and succeeded
C25_Witness ==
    /\ tool_pc = "exited"
    /\ exit_code = 0
    /\ Len(git_log) = 6
    /\ ~git_log[5].ok
    /\ git_log[6].cmd = "git push origin main"
    /\ git_log[6].ok
    /\ cli_arg = Arg("GPT-4O")

\* ------------------------------------------------------------------------
\* multi-model-tester.py: run_multi_model_benchmark (SpecTester)
\* ------------------------------------------------------------------------
MaxRequested == 2
MaxFailures == 2

\* self.test_models, in insertion order
test_models ==
    <<[name |-> "gpt-4-turbo",
       config |-> [provider |-> "openai", model |-> "gpt-4-turbo",
                   temperature |-> "0.2", max_tokens |-> "3000"]],
      [name |-> "gpt-4o",
       config |-> [provider |-> "openai", model |-> "gpt-4o",
                   temperature |-> "0.2", max_tokens |-> "3000"]],
      [name |-> "gpt-4o-mini",
       config |-> [provider |-> "openai", model |-> "gpt-4o-mini",
                   temperature |-> "0.2", max_tokens |-> "3000"]],
      [name |-> "o1-preview",
       config |-> [provider |-> "openai", model |-> "o1-preview",
                   temperature |-> "1.0", max_completion_tokens |-> "3000"]],
      [name |-> "o1-mini",
       config |-> [provider |-> "openai", model |-> "o1-mini",
                   temperature |-> "1.0", max_completion_tokens |-> "3000"]],
      [name |-> "claude-3-5-sonnet",
       config |-> [provider |-> "anthropic", model |-> "claude-3-5-sonnet-20241022",
                   temperature |-> "0.2", max_tokens |-> "3000"]],
      [name |-> "groq-llama-3.1",
       config |-> [provider |-> "groq", model |-> "llama-3.1-8b-instant",
                   temperature |-> "0.2", max_tokens |-> "3000"]]>>

\* list(self.test_models.keys())
TestModelKeys == [i \in 1..Len(test_models) |-> test_models[i].name]
TestModelNames == {test_models[i].name : i \in 1..Len(test_models)}

\* self.test_models[model_name]
TestConfigOf(model_name) ==
    test_models[CHOOSE i \in 1..Len(test_models) : test_models[i].name = model_name].config

\* datetime.now().strftime('%Y%m%d_%H%M%S') at the successive tests of a run
Timestamps ==
    <<"20200101_000000", "20210615_093000", "20221231_235959", "20230704_120000",
      "20240229_080910", "20250101_120000", "20291231_235959">>

\* branch_name = f"test-{model_name}-{timestamp}"
BranchName(model_name, timestamp) == "test-" \o model_name \o "-" \o timestamp

\* workflow_path = f".github/workflows/test-{model_name}.yml"
WorkflowPath(model_name) == ".github/workflows/test-" \o model_name \o ".yml"

\* what run_individual_model_test executes, in order: the four steps of
\* create_test_branch_for_model, the write of
\* create_test_workflow_for_model, the commit of the workflow and the push
TestSteps(model_name, branch) ==
    <<"git checkout -b " \o branch,
      "append src/benchmark-test.ts",
      "git add .",
      "git commit test: " \o model_name,
      "write " \o WorkflowPath(model_name),
      "git add " \o WorkflowPath(model_name),
      "git commit add: workflow for " \o model_name,
      "git push origin " \o branch>>

StepCount == 8

\* the outcomes of one test: no step fails (0), or step k is the first to
\* fail (a non-zero exit status, or an exception of open/write)
FailPoints == 0..StepCount

PushedResult(model_name, config, branch, time) ==
    [model |-> model_name, branch |-> branch, workflow |-> WorkflowPath(model_name),
     status |-> "pushed", timestamp |-> time, config |-> config]

ErrorResult(model_name, step, time) ==
    [model |-> model_name, status |-> "error", error |-> "failed: " \o step,
     timestamp |-> time]

\* a variant that does not look at the exit status of the push
run_individual_model_test_unchecked(model_name, config, timestamp, fail_at, time) ==
    LET branch == BranchName(model_name, timestamp)
        steps  == TestSteps(model_name, branch)
        last   == IF fail_at = 0 THEN StepCount ELSE fail_at
    IN  [ops    |-> [i \in 1..last |->
                        [cmd |-> steps[i], ok |-> i # fail_at, test |-> time]],
         branch |-> IF fail_at = 1 THEN None ELSE [name |-> branch],
         result |-> IF fail_at \in {0, StepCount}
                    THEN PushedResult(model_name, config, branch, time)
                    ELSE ErrorResult(model_name, steps[fail_at], time)]

\* run_individual_model_test: every step up to the first failing one is
\* executed; the dict returned, the operations executed and the branch the
\* working tree is left on (None: the branch was not created)
run_individual_model_test(model_name, config, timestamp, fail_at, time) ==
    LET branch == BranchName(model_name, timestamp)
        steps  == TestSteps(model_name, branch)
        last   == IF fail_at = 0 THEN StepCount ELSE fail_at
    IN  [ops    |-> [i \in 1..last |->
                        [cmd |-> steps[i], ok |-> i # fail_at, test |-> time]],
         branch |-> IF fail_at = 1 THEN None ELSE [name |-> branch],
         result |-> IF fail_at = 0
                    THEN PushedResult(model_name, config, branch, time)
                    ELSE ErrorResult(model_name, steps[fail_at], time)]

\* [r for r in results_data if r.get('status') != 'error']
RECURSIVE NotError(_)
NotError(results_data) ==
    IF results_data = <<>> THEN <<>>
    ELSE (IF Head(results_data).status # "error" THEN <<Head(results_data)>> ELSE <<>>)
             \o NotError(Tail(results_data))

\* min(..., key=timestamp) and max(..., key=timestamp): the first extremal
PyMinByTime(rs) ==
    rs[CHOOSE i \in 1..Len(rs) :
          /\ \A j \in 1..Len(rs) : rs[i].timestamp <= rs[j].timestamp
          /\ \A j \in 1..(i - 1) : rs[j].timestamp > rs[i].timestamp].model

PyMaxByTime(rs) ==
    rs[CHOOSE i \in 1..Len(rs) :
          /\ \A j \in 1..Len(rs) : rs[i].timestamp >= rs[j].timestamp
          /\ \A j \in 1..(i - 1) : rs[j].timestamp < rs[i].timestamp].model

ZeroDivisionError == [error |-> "ZeroDivisionError"]

\* (a / b) * 100
PyRate(a, b) == IF b = 0 THEN ZeroDivisionError ELSE Percent(a, b)

CountStatus(results_data, is_error) ==
    Cardinality({i \in 1..Len(results_data) :
                    (results_data[i].status = "error") = is_error})

\* the set of keys of analysis['model_performance']
PerformanceKeys(results_data) == {results_data[i].model : i \in 1..Len(results_data)}

\* a variant that computes the comparative metrics unconditionally
analyze_model_results_unguarded(results_data) ==
    LET ok == NotError(results_data)
    IN  [total_models     |-> Len(results_data),
         successful_tests |-> CountStatus(results_data, FALSE),
         failed_tests     |-> CountStatus(results_data, TRUE),
         model_performance |-> PerformanceKeys(results_data),
         comparative_analysis |->
             [fastest_setup |-> IF ok = <<>> THEN "None" ELSE PyMinByTime(ok),
              most_recent   |-> IF ok = <<>> THEN "None" ELSE PyMaxByTime(ok),
              success_rate  |-> PyRate(CountStatus(results_data, FALSE),
                                       Len(results_data))]]

\* analyze_model_results
analyze_model_results(results_data) ==
    LET ok == NotError(results_data)
        successful == CountStatus(results_data, FALSE)
    IN  [total_models     |-> Len(results_data),
         successful_tests |-> successful,
         failed_tests     |-> CountStatus(results_data, TRUE),
         model_performance |-> PerformanceKeys(results_data),
         comparative_analysis |->
             IF successful > 0
             THEN [fastest_setup |-> PyMinByTime(ok),
                   most_recent   |-> PyMaxByTime(ok),
                   success_rate  |-> PyRate(successful, Len(results_data))]
             ELSE None]    \* the initial {} is left in place

\* args.models of the runs considered: None without --models
RequestNames == {"gpt-4o", "groq-llama-3.1", "gpt-5"}
ModelLists == SeqsUpTo(RequestNames, MaxRequested) \ {<<>>}
TesterArgs == {[names |-> ms] : ms \in ModelLists} \cup {None}

\* what `git branch --show-current` prints: "" on a detached HEAD
StartBranches == {"main", ""}

TesterInit ==
    /\ ScoreIdle
    /\ PipelineIdle
    /\ second_results = None
    /\ academic_pc = "idle"
    /\ self_results = <<>>
    /\ pr_numbers = <<>>
    /\ pr_pos = 0
    /\ api_seen = <<>>
    /\ runs = 0
    /\ first_run_results = None
    /\ csv_rows = None
    /\ workflow = <<>>
    /\ calls = <<>>
    /\ git_log = <<>>
    /\ original_branch = None
    /\ models_to_test = <<>>
    /\ model_pos = 0
    /\ tester_results = <<>>
    /\ analysis = None
    /\ remote_branches = <<>>
    /\ collected = None
    /\ cli_arg \in TesterArgs
    /\ current_branch \in StartBranches
    /\ tool_pc = "start"

TesterUnchanged ==
    UNCHANGED <<script, pc, github_token, comments_resp, reviews_resp, requested,
                all_reviews, fetch_status, results, text_report, summary, dir_created,
                files, scoreVars, second_results, cli_arg, academic_pc, self_results,
                pr_numbers, pr_pos, api_seen, runs, first_run_results, csv_rows,
                workflow, calls, remote_branches, collected>>

\* the head of run_multi_model_benchmark: models_to_test, original_branch
TesterStart ==
    /\ tool_pc = "start"
    /\ models_to_test' = IF cli_arg = None THEN TestModelKeys ELSE cli_arg.names
    /\ original_branch' = [name |-> current_branch]
    /\ model_pos' = 1
    /\ tool_pc' = "loop"
    /\ PrintMsg("MULTI-MODEL AI BENCHMARK TESTING SYSTEM")
    /\ UNCHANGED <<git_log, current_branch, tester_results, analysis, exit_code>>
    /\ TesterUnchanged

Failures == CountStatus(tester_results, TRUE)

\* "if model_name not in self.test_models: ... continue"
TesterSkip ==
    /\ tool_pc = "loop"
    /\ model_pos <= Len(models_to_test)
    /\ models_to_test[model_pos] \notin TestModelNames
    /\ PrintMsg("Unknown model: " \o models_to_test[model_pos] \o ", skipping...")
    /\ model_pos' = model_pos + 1
    /\ UNCHANGED <<tool_pc, git_log, current_branch, original_branch, models_to_test,
                   tester_results, analysis, exit_code>>
    /\ TesterUnchanged

\* result = self.run_individual_model_test(model_name, config);
\* results.append(result)
TesterTest ==
    /\ tool_pc = "loop"
    /\ model_pos <= Len(models_to_test)
    /\ models_to_test[model_pos] \in TestModelNames
    /\ \E fail_at \in FailPoints :
          /\ fail_at # 0 => Failures < MaxFailures
          /\ LET model_name == models_to_test[model_pos]
                 test == run_individual_model_test(model_name, TestConfigOf(model_name),
                                                   Timestamps[model_pos], fail_at,
                                                   model_pos)
             IN  /\ git_log' = git_log \o test.ops
                 /\ current_branch' =
                        IF test.branch = None THEN current_branch ELSE test.branch.name
                 /\ tester_results' = Append(tester_results, test.result)
                 /\ PrintMsg(IF test.result.status = "error"
                             THEN "Error testing " \o model_name
                             ELSE "Pushing branch " \o test.result.branch)
    /\ tool_pc' = "checkout"
    /\ UNCHANGED <<original_branch, models_to_test, model_pos, analysis, exit_code>>
    /\ TesterUnchanged

\* `git checkout <original_branch>`: an empty name is always refused
CheckoutOutcomes == IF original_branch.name = "" THEN {FALSE} ELSE BOOLEAN

CheckoutOriginal(ok) ==
    /\ git_log' = Append(git_log, [cmd  |-> "git checkout " \o original_branch.name,
                                   ok   |-> ok,
                                   test |-> 0])
    /\ current_branch' = IF ok THEN original_branch.name ELSE current_branch

\* a loop that goes on to the next model without the checkout
TesterCheckoutSkipped ==
    /\ tool_pc = "checkout"
    /\ PrintMsg(models_to_test[model_pos] \o " test setup complete")
    /\ model_pos' = model_pos + 1
    /\ tool_pc' = "loop"
    /\ UNCHANGED <<git_log, current_branch, original_branch, models_to_test,
                   tester_results, analysis, exit_code>>
    /\ TesterUnchanged

\* "Return to original branch" with check=True, then the next iteration
TesterCheckout ==
    /\ tool_pc = "checkout"
    /\ \E ok \in CheckoutOutcomes :
          /\ CheckoutOriginal(ok)
          /\ IF ok
             THEN /\ PrintMsg(models_to_test[model_pos] \o " test setup complete")
                  /\ model_pos' = model_pos + 1
                  /\ tool_pc' = "loop"
             ELSE /\ tool_pc' = "handler"
                  /\ UNCHANGED <<console, model_pos>>
    /\ UNCHANGED <<original_branch, models_to_test, tester_results, analysis, exit_code>>
    /\ TesterUnchanged

\* after the loop: analyze_model_results, generate_comparison_report (which
\* creates a directory and writes three files, or raises), return
TesterAnalyze ==
    /\ tool_pc = "loop"
    /\ model_pos > Len(models_to_test)
    /\ analysis' = analyze_model_results(tester_results)
    /\ \E written \in BOOLEAN :
          IF written
          THEN /\ PrintMsg("Multi-model benchmark testing complete!")
               /\ tool_pc' = "returned"
               /\ exit_code' = 0
          ELSE /\ PrintMsg("Analyzing results")
               /\ tool_pc' = "handler"
               /\ UNCHANGED exit_code
    /\ UNCHANGED <<git_log, current_branch, original_branch, models_to_test, model_pos,
                   tester_results>>
    /\ TesterUnchanged

\* except Exception: print, try the checkout once more, re-raise; main does
\* not catch, the process ends with a traceback
TesterHandler ==
    /\ tool_pc = "handler"
    /\ \E ok \in CheckoutOutcomes : CheckoutOriginal(ok)
    /\ PrintMsg("Error during multi-model testing")
    /\ tool_pc' = "raised"
    /\ exit_code' = 1
    /\ UNCHANGED <<original_branch, models_to_test, model_pos, tester_results, analysis>>
    /\ TesterUnchanged

TesterNext ==
    \/ TesterStart
    \/ TesterSkip
    \/ TesterTest
    \/ TesterCheckout
    \/ TesterAnalyze
    \/ TesterHandler

SpecTester == TesterInit /\ [][TesterNext]_vars

\* the entries of git_log that are checkouts of the original branch
IsCheckoutOriginal(entry) == entry.test = 0

\* the entry is the first operation of a test: `git checkout -b <branch>`
StartsTest(i) ==
    /\ git_log[i].test > 0
    /\ i = 1 \/ git_log[i - 1].test # git_log[i].test

\* C23: after each model's test, pushed or failed, the original branch is
\* checked out before the next test begins, so every test branch is
\* created from the original branch; on a normal return the working tree
\* is on the original branch; when the run fails a further checkout of the
\* original branch is attempted before the exception leaves the function.
C23_BackToOriginalBranch ==
    /\ tool_pc = "loop" => current_branch = original_branch.name
    /\ \A i \in 1..Len(git_log) :
          StartsTest(i) =>
              \/ i = 1
              \/ IsCheckoutOriginal(git_log[i - 1]) /\ git_log[i - 1].ok
    /\ tool_pc \in {"loop", "returned"} =>
          Cardinality({i \in 1..Len(git_log) : IsCheckoutOriginal(git_log[i])})
              = Len(tester_results)
    /\ tool_pc = "returned" => current_branch = original_branch.name
    /\ tool_pc = "raised" =>
          /\ git_log # <<>>
          /\ IsCheckoutOriginal(git_log[Len(git_log)])
          /\ git_log[Len(git_log)].cmd = "git checkout " \o original_branch.name

\* two tests were run, the first failed after its branch had been created,
\* the second was pushed, and the run returned on the original branch
C23_Witness ==
    /\ tool_pc = "returned"
    /\ Len(tester_results) = 2
    /\ tester_results[1].status = "error"
    /\ tester_results[2].status = "pushed"
    /\ \E i \in 1..Len(git_log) : git_log[i].test = 1 /\ git_log[i].ok
    /\ current_branch = "main"
    /\ original_branch = [name |-> "main"]

\* the operations the step added to git_log
NewOps == SubSeq(git_log', Len(git_log) + 1, Len(git_log'))

\* C24: run_individual_model_test never raises; it executes create-branch,
\* the fixture commit, the workflow write, the workflow commit and the push
\* in that order, stops at the first failing step, returns status 'pushed'
\* only when every step succeeded and the push exited with 0, and otherwise
\* returns status 'error' with the error text.
C24_TestNeverRaises ==
    [][tester_results' # tester_results =>
          LET r     == tester_results'[Len(tester_results')]
              steps == TestSteps(r.model, BranchName(r.model, Timestamps[model_pos]))
              n     == Len(NewOps)
          IN  /\ tester_results' = Append(tester_results, r)
              /\ tool_pc' = "checkout"
              /\ r.model = models_to_test[model_pos]
              /\ n \in 1..StepCount
              /\ \A i \in 1..n : NewOps[i].cmd = steps[i]
              /\ \A i \in 1..(n - 1) : NewOps[i].ok
              /\ r.status \in {"pushed", "error"}
              /\ r.status = "pushed" <=> (n = StepCount /\ NewOps[StepCount].ok)
              /\ r.status = "error" <=> ~NewOps[n].ok
              /\ r.status = "error" => r.error = "failed: " \o NewOps[n].cmd
              /\ r.status = "pushed" =>
                     r.branch = BranchName(r.model, Timestamps[model_pos])]_vars

\* every step before the push succeeded, the push exited with a non-zero
\* status, and the test returned status 'error' to the loop
C24_Witness ==
    /\ tool_pc = "checkout"
    /\ Len(tester_results) = 1
    /\ tester_results[1].status = "error"
    /\ Len(git_log) = StepCount
    /\ ~git_log[StepCount].ok
    /\ \A i \in 1..(StepCount - 1) : git_log[i].ok

RECURSIVE KnownAmong(_)
KnownAmong(names) ==
    IF names = <<>> THEN <<>>
    ELSE (IF Head(names) \in TestModelNames THEN <<Head(names)>> ELSE <<>>)
             \o KnownAmong(Tail(names))

\* the requested names whose loop iteration is over
Handled ==
    SubSeq(models_to_test, 1,
           IF tool_pc \in {"checkout", "handler", "raised"} /\ model_pos <= Len(models_to_test)
           THEN model_pos ELSE model_pos - 1)

\* C28: the run holds one result per requested name that is in
\* test_models, in order, and unknown names cause no git operation;
\* analyze_model_results counts successful_tests + failed_tests =
\* total_models = number of results, and computes success_rate only when
\* successful_tests > 0, so nothing is divided by zero.
C28_RunAccounting ==
    /\ tool_pc # "start" =>
          [i \in 1..Len(tester_results) |-> tester_results[i].model] = KnownAmong(Handled)
    /\ tool_pc = "returned" =>
          Len(tester_results) = Len(KnownAmong(models_to_test))
    /\ \A i \in 1..Len(git_log) :
          git_log[i].test > 0 => models_to_test[git_log[i].test] \in TestModelNames
    /\ analysis # None =>
          /\ analysis.total_models = Len(tester_results)
          /\ analysis.successful_tests + analysis.failed_tests = analysis.total_models
          /\ analysis.comparative_analysis # None <=> analysis.successful_tests > 0
          /\ analysis.comparative_analysis # None =>
                /\ analysis.comparative_analysis.success_rate # ZeroDivisionError
                /\ analysis.total_models > 0

\* an unknown name and a known one were requested, the only test failed,
\* and the run returned without computing a success rate
C28_Witness ==
    /\ tool_pc = "returned"
    /\ models_to_test = <<"gpt-5", "gpt-4o">>
    /\ Len(tester_results) = 1
    /\ analysis.total_models = 1
    /\ analysis.failed_tests = 1
    /\ analysis.successful_tests = 0
    /\ analysis.comparative_analysis = None

\* ------------------------------------------------------------------------
\* collect-results.py: collect_all_results (SpecCollect)
\* ------------------------------------------------------------------------
MaxBranches == 2

\* Python s.replace(old, new): every occurrence, left to right
RECURSIVE StrReplace(_, _, _)
StrReplace(s, old, new) ==
    IF Len(s) < Len(old) THEN s
    ELSE IF SubSeq(s, 1, Len(old)) = old
    THEN new \o StrReplace(SubSeq(s, Len(old) + 1, Len(s)), old, new)
    ELSE CharAt(s, 1) \o StrReplace(SubSeq(s, 2, Len(s)), old, new)

\* Python s.split(sep)[0]: what precedes the first occurrence of sep
SplitHead(s, sep) ==
    LET at == {i \in 1..(Len(s) - Len(sep) + 1) : SubSeq(s, i, i + Len(sep) - 1) = sep}
    IN  IF at = {} THEN s
        ELSE SubSeq(s, 1, (CHOOSE i \in at : \A j \in at : i <= j) - 1)

\* an extraction that cuts at the first '-'
ModelNameUpToDash(branch_name) == SplitHead(StrReplace(branch_name, "test-", ""), "-")

\* model_name = branch_name.replace('test-', '').split('-202')[0]
ModelNameOf(branch_name) == SplitHead(StrReplace(branch_name, "test-", ""), "-202")

\* branch.startswith('origin/test-') and '-202' in branch
IsTestBranch(branch) == IsPrefix("origin/test-", branch) /\ StrContains("-202", branch)

\* the timestamps of the test branches on the remote
CollectTimestamps == <<"20200101_000000", "20250101_120000", "20291231_235959">>

\* lines of `git branch -r` that are always there
FixedLines == <<"  origin/HEAD -> origin/main", "  origin/main", "  origin/test-utils">>

RemoteLine(branch_name) == "  origin/" \o branch_name

\* the lines `git branch -r` prints: the fixed ones and k test branches
\* pushed by the tester, starting at model o and timestamp t
Listing(o, t, k) ==
    FixedLines \o
    [j \in 1..k |->
        RemoteLine(BranchName(TestModelKeys[((o + j - 2) % Len(TestModelKeys)) + 1],
                              CollectTimestamps[((t + j - 2) % Len(CollectTimestamps)) + 1]))]

Listings ==
    {Listing(o, t, k) : o \in 1..Len(TestModelKeys), t \in 1..Len(CollectTimestamps),
                        k \in 0..MaxBranches}

RemoteLines ==
    {FixedLines[i] : i \in 1..Len(FixedLines)}
        \cup {RemoteLine(BranchName(m, CollectTimestamps[t])) :
                  m \in TestModelNames, t \in 1..Len(CollectTimestamps)}

\* one line of the loop of get_test_branches: the branch appended, or None
SelectedOf ==
    [line \in RemoteLines |->
        IF IsTestBranch(Strip(line))
        THEN [name |-> StrReplace(Strip(line), "origin/", "")]
        ELSE None]

RECURSIVE get_test_branches(_)
get_test_branches(lines) ==
    IF lines = <<>> THEN <<>>
    ELSE (IF SelectedOf[Head(lines)] = None THEN <<>>
          ELSE <<SelectedOf[Head(lines)].name>>)
             \o get_test_branches(Tail(lines))

BranchNames == {SelectedOf[line].name : line \in {l \in RemoteLines : SelectedOf[l] # None}}

ModelNameTable == [b \in BranchNames |-> ModelNameOf(b)]

\* an element of the workflow_runs array; complete: it has every key that
\* analyze_branch_results subscripts
Run(status, conclusion, complete) ==
    [status |-> status, conclusion |-> conclusion, complete |-> complete]

RunLists ==
    {<<>>,
     <<Run("completed", "success", TRUE)>>,
     <<Run("completed", "failure", TRUE)>>,
     <<Run("completed", "cancelled", TRUE)>>,
     <<Run("in_progress", "null", TRUE)>>,
     <<Run("completed", "success", FALSE)>>,
     <<Run("in_progress", "null", TRUE), Run("completed", "success", TRUE)>>}

\* an element of the commits array; complete: it has 'sha' and 'commit'
Commit(complete) == [complete |-> complete]

CommitLists == {<<Commit(TRUE)>>, <<Commit(FALSE)>>}

\* what a request comes back with: the parsed list, or an exception of
\* urlopen / json.loads
ApiResponses(lists) ==
    {[status |-> "ok", items |-> l] : l \in lists} \cup {[status |-> "error", items |-> <<>>]}

\* the commits requests considered all succeed
CommitResponses == {[status |-> "ok", items |-> l] : l \in CommitLists}

\* no request is made without a token
AnswersFor(token, responses) == IF token THEN responses ELSE {None}

\* fetch_branch_commits and fetch_workflow_runs: [] without a token and on
\* any exception
FetchList(token, answer) ==
    IF ~token \/ answer = None THEN <<>>
    ELSE IF answer.status # "ok" THEN <<>>
    ELSE answer.items

\* a classification by the last run of the list instead of the first
StatusOfOldest(workflow_runs) ==
    IF workflow_runs = <<>> THEN "unknown"
    ELSE IF workflow_runs[Len(workflow_runs)].status = "completed"
    THEN IF workflow_runs[Len(workflow_runs)].conclusion = "success"
         THEN "success" ELSE "failed"
    ELSE "running"

\* "Determine overall status"
StatusOf(workflow_runs) ==
    IF workflow_runs = <<>> THEN "unknown"
    ELSE IF workflow_runs[1].status = "completed"
    THEN IF workflow_runs[1].conclusion = "success" THEN "success" ELSE "failed"
    ELSE "running"

\* analyze_branch_results: the analysis dict, or the KeyError of a
\* subscript on an incomplete first commit or first run
analyze_branch_results(branch_name, commits, workflow_runs) ==
    IF commits # <<>> /\ ~commits[1].complete THEN [raised |-> "KeyError"]
    ELSE IF workflow_runs # <<>> /\ ~workflow_runs[1].complete THEN [raised |-> "KeyError"]
    ELSE [branch_name         |-> branch_name,
          model_name          |-> ModelNameTable[branch_name],
          commits_count       |-> Len(commits),
          workflow_runs_count |-> Len(workflow_runs),
          latest_commit       |-> IF commits = <<>> THEN None ELSE commits[1],
          latest_workflow     |-> IF workflow_runs = <<>> THEN None
                                  ELSE [status     |-> workflow_runs[1].status,
                                        conclusion |-> workflow_runs[1].conclusion],
          status              |-> StatusOf(workflow_runs)]

\* a summary update that leaves 'unknown' out
SummaryAfterKnown(summary_, status) ==
    IF status = "success"
    THEN [summary_ EXCEPT !.completed_tests = @ + 1]
    ELSE IF status = "running"
    THEN [summary_ EXCEPT !.running_tests = @ + 1]
    ELSE IF status = "failed"
    THEN [summary_ EXCEPT !.failed_tests = @ + 1]
    ELSE summary_

\* "Update summary"
SummaryAfter(summary_, status) ==
    IF status = "success"
    THEN [summary_ EXCEPT !.completed_tests = @ + 1]
    ELSE IF status = "running"
    THEN [summary_ EXCEPT !.running_tests = @ + 1]
    ELSE IF status = "failed"
    THEN [summary_ EXCEPT !.failed_tests = @ + 1]
    ELSE [summary_ EXCEPT !.unknown_tests = @ + 1]

\* d[key] = value on a dict kept as a sequence in insertion order
DictPut(d, key, value) ==
    IF \E i \in 1..Len(d) : d[i].name = key
    THEN [i \in 1..Len(d) |-> IF d[i].name = key THEN [name |-> key, data |-> value]
                              ELSE d[i]]
    ELSE Append(d, [name |-> key, data |-> value])

\* branches = self.get_test_branches()
TestBranches == get_test_branches(remote_branches)

CollectInit ==
    /\ ScoreIdle
    /\ script = "none"
    /\ pc = "idle"
    /\ github_token \in BOOLEAN
    /\ comments_resp = None
    /\ reviews_resp = None
    /\ requested = <<>>
    /\ all_reviews = <<>>
    /\ fetch_status = "not_called"
    /\ results = <<>>
    /\ text_report = None
    /\ summary = None
    /\ console = <<>>
    /\ dir_created = FALSE
    /\ files = [f \in AllFiles |-> "absent"]
    /\ exit_code = -1
    /\ second_results = None
    /\ cli_arg = None
    /\ academic_pc = "idle"
    /\ self_results = <<>>
    /\ pr_numbers = <<>>
    /\ pr_pos = 0
    /\ api_seen = <<>>
    /\ runs = 0
    /\ first_run_results = None
    /\ csv_rows = None
    /\ workflow = <<>>
    /\ calls = <<>>
    /\ git_log = <<>>
    /\ current_branch = "main"
    /\ original_branch = None
    /\ models_to_test = <<>>
    /\ model_pos = 0
    /\ tester_results = <<>>
    /\ analysis = None
    /\ collected = None
    /\ remote_branches \in Listings
    /\ tool_pc = "start"

CollectUnchanged ==
    UNCHANGED <<script, pc, github_token, comments_resp, reviews_resp, requested,
                all_reviews, fetch_status, results, text_report, summary, dir_created,
                files, exit_code, scoreVars, second_results, cli_arg, academic_pc,
                self_results, pr_numbers, pr_pos, runs, first_run_results, csv_rows,
                workflow, calls, git_log, current_branch, original_branch,
                models_to_test, tester_results, analysis, remote_branches>>

\* the head of collect_all_results: get_test_branches (an exception of
\* subprocess.run gives []), the early return, the empty results dict
CollectStart ==
    /\ tool_pc = "start"
    /\ \E listed \in BOOLEAN :
          LET branches == IF listed THEN TestBranches ELSE <<>>
          IN  IF branches = <<>>
              THEN /\ console' = console \o
                          (IF listed THEN <<>> ELSE <<"Error getting branches">>)
                          \o <<"No test branches found">>
                   /\ collected' = [error |-> "No test branches found"]
                   /\ tool_pc' = "returned"
                   /\ UNCHANGED model_pos
              ELSE /\ PrintMsg("Found test branches")
                   /\ collected' =
                          [total_branches |-> Len(branches),
                           branch_results |-> <<>>,
                           summary        |-> [completed_tests |-> 0, running_tests |-> 0,
                                               failed_tests |-> 0, unknown_tests |-> 0]]
                   /\ model_pos' = 1
                   /\ tool_pc' = "loop"
    /\ UNCHANGED api_seen
    /\ CollectUnchanged

\* one iteration of "for branch in branches": analyze_branch_results with
\* its two fetches, the entry in branch_results, the summary update, or the
\* error entry of the except clause
CollectBranch ==
    /\ tool_pc = "loop"
    /\ model_pos <= Len(TestBranches)
    /\ \E commits_answer \in AnswersFor(github_token, CommitResponses),
          runs_answer \in AnswersFor(github_token, ApiResponses(RunLists)) :
          LET branch == TestBranches[model_pos]
              outcome == analyze_branch_results(branch,
                                                FetchList(github_token, commits_answer),
                                                FetchList(github_token, runs_answer))
          IN  /\ api_seen' = Append(api_seen, [branch  |-> branch,
                                               commits |-> commits_answer,
                                               runs    |-> runs_answer])
              /\ IF "raised" \in DOMAIN outcome
                 THEN /\ PrintMsg("Error analyzing " \o branch)
                      /\ collected' =
                             [collected EXCEPT
                                 !.branch_results =
                                     DictPut(@, branch, [error       |-> outcome.raised,
                                                         branch_name |-> branch])]
                 ELSE /\ PrintMsg("Analyzing branch: " \o branch)
                      /\ collected' =
                             [collected EXCEPT
                                 !.branch_results = DictPut(@, branch, outcome),
                                 !.summary = SummaryAfter(@, outcome.status)]
    /\ model_pos' = model_pos + 1
    /\ UNCHANGED tool_pc
    /\ CollectUnchanged

\* the loop is over: return results
CollectReturn ==
    /\ tool_pc = "loop"
    /\ model_pos > Len(TestBranches)
    /\ tool_pc' = "returned"
    /\ UNCHANGED <<collected, model_pos, api_seen, console>>
    /\ CollectUnchanged

CollectNext ==
    \/ CollectStart
    \/ CollectBranch
    \/ CollectReturn

SpecCollect == CollectInit /\ [][CollectNext]_vars

\* collect_all_results has built its results dict (no early return)
Collecting == collected # None /\ "summary" \in DOMAIN collected

\* the analysis of the i-th branch was returned, not raised
Analysed(i) == "status" \in DOMAIN collected.branch_results[i].data

\* the answer to the workflow-runs request of the i-th branch holds a run
HasRuns(i) ==
    /\ github_token
    /\ api_seen[i].runs.status = "ok"
    /\ api_seen[i].runs.items # <<>>

LatestRun(i) == api_seen[i].runs.items[1]

\* C26: in every analysis that analyze_branch_results returns, status is
\* 'success' exactly when the first run is 'completed' with conclusion
\* 'success', 'failed' exactly when it is 'completed' with another
\* conclusion, 'running' exactly when a run exists and is not 'completed',
\* and 'unknown' exactly when no run was obtained, as always without a
\* credential.
C26_StatusClassification ==
    Collecting =>
        \A i \in 1..Len(collected.branch_results) :
            Analysed(i) =>
                LET status == collected.branch_results[i].data.status
                IN  /\ api_seen[i].branch = collected.branch_results[i].name
                    /\ status \in {"success", "failed", "running", "unknown"}
                    /\ status = "success" <=>
                           /\ HasRuns(i)
                           /\ LatestRun(i).status = "completed"
                           /\ LatestRun(i).conclusion = "success"
                    /\ status = "failed" <=>
                           /\ HasRuns(i)
                           /\ LatestRun(i).status = "completed"
                           /\ LatestRun(i).conclusion # "success"
                    /\ status = "running" <=>
                           HasRuns(i) /\ LatestRun(i).status # "completed"
                    /\ status = "unknown" <=> ~HasRuns(i)
                    /\ ~github_token => status = "unknown"

\* a cancelled run gave 'failed'; a running run listed before a successful
\* older one gave 'running'
C26_Witness ==
    /\ tool_pc = "returned"
    /\ Collecting
    /\ Len(collected.branch_results) = 2
    /\ Analysed(1) /\ Analysed(2)
    /\ HasRuns(1) /\ HasRuns(2)
    /\ LatestRun(1).conclusion = "cancelled"
    /\ collected.branch_results[1].data.status = "failed"
    /\ Len(api_seen[2].runs.items) = 2
    /\ collected.branch_results[2].data.status = "running"

\* the branch names on the lines that follow the fixed lines of the listing
ListedTestBranches ==
    [j \in 1..(Len(remote_branches) - Len(FixedLines)) |->
        SubSeq(remote_branches[Len(FixedLines) + j], Len("  origin/") + 1,
               Len(remote_branches[Len(FixedLines) + j]))]

ResultNames == [i \in 1..Len(collected.branch_results) |-> collected.branch_results[i].name]

\* C27: for every model name of the tester's test_models and every
\* timestamp, the branch 'test-<model>-<timestamp>' listed on the remote is
\* selected by get_test_branches, and the model name collect-results
\* extracts from it is that model name.
C27_BranchNameRoundTrip ==
    /\ \A j \in 1..Len(ListedTestBranches) :
          \E m \in TestModelNames, t \in 1..Len(CollectTimestamps) :
              ListedTestBranches[j] = BranchName(m, CollectTimestamps[t])
    /\ Collecting =>
          /\ collected.total_branches = Len(ListedTestBranches)
          /\ IsPrefix(ResultNames, ListedTestBranches)
          /\ \A i \in 1..Len(collected.branch_results) :
                \A m \in TestModelNames, t \in 1..Len(CollectTimestamps) :
                    (/\ Analysed(i)
                     /\ collected.branch_results[i].name = BranchName(m, CollectTimestamps[t]))
                        => collected.branch_results[i].data.model_name = m
    /\ (tool_pc = "returned" /\ ~Collecting /\ ~Printed("Error getting branches"))
           => ListedTestBranches = <<>>

\* the branch of a model whose name holds dashes, digits and a dot,
\* created in 2029, was selected and gave that model's name back
C27_Witness ==
    /\ tool_pc = "returned"
    /\ Collecting
    /\ Len(collected.branch_results) = 2
    /\ collected.branch_results[1].name = "test-groq-llama-3.1-20291231_235959"
    /\ Analysed(1) /\ Analysed(2)
    /\ collected.branch_results[1].data.model_name = "groq-llama-3.1"
    /\ collected.branch_results[2].data.model_name = "gpt-4-turbo"

SummaryTotal ==
    collected.summary.completed_tests + collected.summary.running_tests
        + collected.summary.failed_tests + collected.summary.unknown_tests

ErrorEntries ==
    Cardinality({i \in 1..Len(collected.branch_results) :
                    "error" \in DOMAIN collected.branch_results[i].data})

\* C29: every test branch has exactly one entry in branch_results, the
\* four summary counters plus the number of branches whose analysis raised
\* add up to total_branches, and a branch whose analysis raised does not
\* stop the analysis of the branches after it.
C29_CollectAccounting ==
    Collecting =>
        /\ collected.total_branches = Len(ListedTestBranches)
        /\ \A i, j \in 1..Len(collected.branch_results) :
              collected.branch_results[i].name = collected.branch_results[j].name => i = j
        /\ tool_pc = "loop" =>
              /\ Len(collected.branch_results) = model_pos - 1
              /\ SummaryTotal + ErrorEntries = model_pos - 1
              /\ model_pos <= collected.total_branches + 1
        /\ tool_pc = "returned" =>
              /\ ResultNames = ListedTestBranches
              /\ SummaryTotal + ErrorEntries = collected.total_branches

\* the analysis of the first branch raised, the second branch was analysed
\* all the same, and its status counted as 'unknown'
C29_Witness ==
    /\ tool_pc = "returned"
    /\ Collecting
    /\ collected.total_branches = 2
    /\ "error" \in DOMAIN collected.branch_results[1].data
    /\ Analysed(2)
    /\ collected.branch_results[2].data.status = "unknown"
    /\ collected.summary.unknown_tests = 1
    /\ SummaryTotal = 1

====
